---- MODULE Spec2Model ----
(***************************************************************************)
(* Stereobuddy scene store and constraint solver                           *)
(* (src/hooks/useGeometryEngine.tsx).                                      *)
(*                                                                         *)
(* A JavaScript object is a TLA+ function from its field names to its      *)
(* values: a field that is absent (undefined) is a name outside the        *)
(* DOMAIN.  An array is a sequence.                                        *)
(*                                                                         *)
(* Coordinates are held in fixed point: 4000 grid units make one world     *)
(* unit, so a grid unit is 0.00025.  Products of two coordinates stay      *)
(* below 2^31 for the coordinates used here.  A quotient or a square root  *)
(* is rounded to the nearest grid value, as a floating-point result is     *)
(* rounded to the nearest representable value.                             *)
(***************************************************************************)
EXTENDS Integers, Sequences, FiniteSets, TLC

VARIABLES
    objects,            \* useState objects            (line 32)
    constraints,        \* useState constraints        (line 33)
    steps,              \* useState steps              (line 34)
    activeStepId,       \* useState activeStepId       (line 35)
    cameraPose,         \* useState cameraPose         (line 36)
    notebookPose,       \* useState notebookPose       (line 37)
    solverStats,        \* useState solverStats        (line 39)
    objectsRef,         \* objectsRef.current          (line 41)
    constraintsRef,     \* constraintsRef.current      (line 42)
    pc,                 \* position of the running solve() call, or "idle"
    currentObjects,     \* solve: let currentObjects   (line 49)
    activeConstraints,  \* solve: const activeConstraints (line 50)
    iter,               \* solve: loop index           (line 57)
    iterError,          \* solve: let iterError        (line 58)
    totalResidual,      \* solve: let totalResidual    (line 54)
    solves,             \* number of solve() calls since the last reset
    before,             \* history: the store as the running or last solve()
                        \* call found it
    last,               \* history: the last operation, its arguments and effect
    initialized,        \* AutoFrame: initialized.current (part_000 line 36)
    prevCount,          \* AutoFrame: prevCount.current   (part_000 line 35)
    playerState,        \* ChatPanel: useState playerState     (line 224)
    contextState,       \* ChatPanel: audioContextRef.current.state (225)
    activeSource,       \* ChatPanel: activeSourceRef.current  (line 226)
    audioCache,         \* ChatPanel: keys of audioCacheRef.current (227)
    playbackIndex,      \* ChatPanel: playbackIndexRef.current (line 228)
    sources,            \* buffer sources started and not yet ended
    timers,             \* timeouts set by playStepAudio and not yet fired
    toggling,           \* togglePlayback calls waiting at their await
    apiKey,             \* geminiService: whether process.env.API_KEY is set
    genPc,              \* position of the running generateGeometryAction
                        \* call, or "idle"
    isRetry,            \* generateGeometryAction: parameter isRetry
    requests,           \* history: generateContent calls of the last
                        \* generateGeometryAction call
    responses,          \* history: the response texts of those calls
    result              \* what the last generateGeometryAction call gave

storeVars == <<objects, constraints, steps, activeStepId, cameraPose,
               notebookPose, solverStats, objectsRef, constraintsRef>>
solveVars == <<pc, currentObjects, activeConstraints, iter, iterError,
               totalResidual, solves>>
playerVars == <<playerState, contextState, activeSource, audioCache,
                playbackIndex, sources, timers, toggling>>
\* state of the components around the store
genVars == <<apiKey, genPc, isRetry, requests, responses, result>>
appVars == <<initialized, prevCount, playerVars, genVars>>
vars == <<storeVars, solveVars, before, last, appVars>>

-----------------------------------------------------------------------------
(* Bounds of the model *)

\* objects in the store, constraints in the store, solve() calls in a row
MaxObjects == 3
MaxConstraints == 3
MaxSolves == 2

\* constraints of a scene handed to the solver
MaxSceneConstraints == 2

-----------------------------------------------------------------------------
(* JavaScript objects *)

EmptyObject == << >>

Has(o, k) == k \in DOMAIN o

\* o.k = v  /  { ...o, k: v }
SetField(o, k, v) == [f \in DOMAIN o \cup {k} |-> IF f = k THEN v ELSE o[f]]

\* { ...a, ...b }
Spread(a, b) ==
    [f \in DOMAIN a \cup DOMAIN b |-> IF f \in DOMAIN b THEN b[f] ELSE a[f]]

\* o.k used as a condition, for a boolean field
Truthy(o, k) == Has(o, k) /\ o[k] = TRUE

\* Array.prototype.includes
Includes(s, x) == \E i \in 1..Len(s) : s[i] = x

\* Array.prototype.findIndex on the id, 1-based; 0 when nothing matches
FindIndexFrom(objs, id, i) ==
    IF \E j \in i..Len(objs) : objs[j].id = id
    THEN CHOOSE j \in i..Len(objs) :
            /\ objs[j].id = id
            /\ \A k \in i..(j - 1) : objs[k].id # id
    ELSE 0

FindIndex(objs, id) == FindIndexFrom(objs, id, 1)

IdsOf(objs) == {objs[i].id : i \in 1..Len(objs)}

-----------------------------------------------------------------------------
(* Fixed-point arithmetic *)

Abs(x) == IF x < 0 THEN -x ELSE x

\* a / b rounded to the nearest integer, b > 0
RoundDiv(a, b) ==
    IF a >= 0 THEN (2 * a + b) \div (2 * b)
    ELSE -((2 * (-a) + b) \div (2 * b))

RECURSIVE FloorSqrtIn(_, _, _)
FloorSqrtIn(n, lo, hi) ==
    IF lo >= hi THEN lo
    ELSE LET mid == (lo + hi + 1) \div 2
         IN  IF mid * mid <= n THEN FloorSqrtIn(n, mid, hi)
             ELSE FloorSqrtIn(n, lo, mid - 1)

\* Math.sqrt, rounded to the nearest grid value
Sqrt(n) ==
    LET r == FloorSqrtIn(n, 0, 46340)
    IN  IF n - r * r > r THEN r + 1 ELSE r

\* THREE.Vector3.distanceTo
DistanceTo(v, w) ==
    Sqrt((v[1] - w[1]) * (v[1] - w[1]) + (v[2] - w[2]) * (v[2] - w[2])
         + (v[3] - w[3]) * (v[3] - w[3]))

Add3(v, w) == <<v[1] + w[1], v[2] + w[2], v[3] + w[3]>>

Sub3(v, w) == <<v[1] - w[1], v[2] - w[2], v[3] - w[3]>>

-----------------------------------------------------------------------------
(* solve(): constants and one constraint step *)

\* mutant: the loop gives up after three passes
ThreePasses == 1 + 2

MAX_ITER == 50

\* mutant: LEARNING_RATE = 1, a step is not damped
LearningRateOneInv == 2 - 1

\* LEARNING_RATE = 0.5 = 1 / LEARNING_RATE_INV
LEARNING_RATE_INV == 2

\* iterError < 0.001 (line 112): 0.001 is 4 grid units
CONVERGENCE == 4

\* dist > 0.0001 (line 75): 0.0001 is below one grid unit, so a distance on
\* the grid exceeds it exactly when it exceeds 0
MIN_DIST == 0

\* JSON.parse(JSON.stringify(objs)): a structural copy, field by field.  The
\* values held here (strings, booleans, finite numbers, arrays, objects)
\* are the ones JSON carries unchanged; an absent field stays absent.
JsonClone(objs) ==
    [i \in 1..Len(objs) |-> [f \in DOMAIN objs[i] |-> objs[i][f]]]

\* c => c.enabled
IsEnabled(c) == Truthy(c, "enabled")

\* mutant: the filter on enabled is left out
ActiveConstraintsUnfiltered(cs) == cs

\* constraintsRef.current.filter(c => c.enabled)
ActiveConstraints(cs) == SelectSeq(cs, IsEnabled)

\* o.data?.position
HasPosition(o) == Has(o, "data") /\ Has(o.data, "position")

\* mutant: the test of fixed is left out
MovableAlways(o) == TRUE

\* !o.fixed
Movable(o) == ~Truthy(o, "fixed")

\* const [id1, id2, ...] = c.objectIds; currentObjects.find(o => o.id === idk)
\* 0 stands for undefined
Resolve(objs, c, k) ==
    IF k <= Len(c.objectIds) THEN FindIndex(objs, c.objectIds[k]) ELSE 0

\* mutant: the data bag is replaced by one that holds the position alone
SetPositionDroppingData(objs, i, p) ==
    [objs EXCEPT ![i] = SetField(objs[i], "data", [position |-> p])]

\* o.data.position = p, for the object at index i
SetPosition(objs, i, p) ==
    [objs EXCEPT ![i] =
        SetField(objs[i], "data", SetField(objs[i].data, "position", p))]

\* c.targetValue || 0
TargetValue(c) == IF Has(c, "targetValue") THEN c.targetValue ELSE 0

StepResult(objs, err, fault) == [objs |-> objs, err |-> err, fault |-> fault]

\* if (p1 && p2 && p1.data?.position && p2.data?.position)
DistanceApplies(objs, i1, i2) ==
    /\ i1 # 0
    /\ i2 # 0
    /\ HasPosition(objs[i1])
    /\ HasPosition(objs[i2])

\* mutant: the offset points from v2 to v1
DistanceOffsetReversed(v1, v2, dist, diff) ==
    LET d == Sub3(v1, v2)
        den == dist * 2 * LEARNING_RATE_INV
    IN  <<RoundDiv(d[1] * diff, den), RoundDiv(d[2] * diff, den),
          RoundDiv(d[3] * diff, den)>>

\* offset = (v2 - v1) * (diff / dist) * 0.5 * LEARNING_RATE
DistanceOffset(v1, v2, dist, diff) ==
    LET d == Sub3(v2, v1)
        den == dist * 2 * LEARNING_RATE_INV
    IN  <<RoundDiv(d[1] * diff, den), RoundDiv(d[2] * diff, den),
          RoundDiv(d[3] * diff, den)>>

\* mutant: an endpoint whose partner is fixed takes the partner's share too
DistanceStepLoneEndpointDoubled(objs, c) ==
    LET i1 == Resolve(objs, c, 1)
        i2 == Resolve(objs, c, 2)
    IN  IF ~DistanceApplies(objs, i1, i2) THEN StepResult(objs, 0, FALSE)
        ELSE
          LET v1 == objs[i1].data.position
              v2 == objs[i2].data.position
              dist == DistanceTo(v1, v2)
              diff == dist - TargetValue(c)
              offset == DistanceOffset(v1, v2, dist, diff)
              share == IF Movable(objs[i1]) /\ Movable(objs[i2])
                       THEN offset ELSE Add3(offset, offset)
              after1 == IF Movable(objs[i1])
                        THEN SetPosition(objs, i1, Add3(v1, share))
                        ELSE objs
              after2 == IF Movable(after1[i2])
                        THEN SetPosition(after1, i2, Sub3(v2, share))
                        ELSE after1
          IN  IF dist > MIN_DIST THEN StepResult(after2, Abs(diff), FALSE)
              ELSE StepResult(objs, Abs(diff), FALSE)

DistanceStep(objs, c) ==
    LET i1 == Resolve(objs, c, 1)
        i2 == Resolve(objs, c, 2)
    IN  IF ~DistanceApplies(objs, i1, i2) THEN StepResult(objs, 0, FALSE)
        ELSE
          LET v1 == objs[i1].data.position
              v2 == objs[i2].data.position
              dist == DistanceTo(v1, v2)
              diff == dist - TargetValue(c)
              offset == DistanceOffset(v1, v2, dist, diff)
              after1 == IF Movable(objs[i1])
                        THEN SetPosition(objs, i1, Add3(v1, offset))
                        ELSE objs
              after2 == IF Movable(after1[i2])
                        THEN SetPosition(after1, i2, Sub3(v2, offset))
                        ELSE after1
          IN  IF dist > MIN_DIST THEN StepResult(after2, Abs(diff), FALSE)
              ELSE StepResult(objs, Abs(diff), FALSE)

\* mutant: B is not tested
MidpointAppliesUncheckedB(iM, iA, iB) == iM # 0 /\ iA # 0

\* if (M && A && B)
MidpointApplies(iM, iA, iB) == iM # 0 /\ iA # 0 /\ iB # 0

\* new THREE.Vector3(...o.data!.position!) throws a TypeError when o is
\* undefined, has no data bag or has no position
MidpointFaults(objs, iM, iA, iB) ==
    \E i \in {iM, iA, iB} : i = 0 \/ ~HasPosition(objs[i])

\* mutant: the gap to the midpoint is not added to the error of the pass
MidpointStepErrorDropped(objs, c) ==
    LET iM == Resolve(objs, c, 1)
        iA == Resolve(objs, c, 2)
        iB == Resolve(objs, c, 3)
    IN  IF ~MidpointApplies(iM, iA, iB) THEN StepResult(objs, 0, FALSE)
        ELSE IF MidpointFaults(objs, iM, iA, iB) THEN StepResult(objs, 0, TRUE)
        ELSE
          LET vM == objs[iM].data.position
              sum == Add3(objs[iA].data.position, objs[iB].data.position)
              targetM == <<RoundDiv(sum[1], 2), RoundDiv(sum[2], 2),
                           RoundDiv(sum[3], 2)>>
              gap == Sub3(targetM, vM)
              move == <<RoundDiv(gap[1], LEARNING_RATE_INV),
                        RoundDiv(gap[2], LEARNING_RATE_INV),
                        RoundDiv(gap[3], LEARNING_RATE_INV)>>
          IN  IF Movable(objs[iM])
              THEN StepResult(SetPosition(objs, iM, Add3(vM, move)), 0, FALSE)
              ELSE StepResult(objs, 0, FALSE)

MidpointStep(objs, c) ==
    LET iM == Resolve(objs, c, 1)
        iA == Resolve(objs, c, 2)
        iB == Resolve(objs, c, 3)
    IN  IF ~MidpointApplies(iM, iA, iB) THEN StepResult(objs, 0, FALSE)
        ELSE IF MidpointFaults(objs, iM, iA, iB) THEN StepResult(objs, 0, TRUE)
        ELSE
          LET vM == objs[iM].data.position
              vA == objs[iA].data.position
              vB == objs[iB].data.position
              sum == Add3(vA, vB)
              targetM == <<RoundDiv(sum[1], 2), RoundDiv(sum[2], 2),
                           RoundDiv(sum[3], 2)>>
              diff == DistanceTo(vM, targetM)
              gap == Sub3(targetM, vM)
              move == <<RoundDiv(gap[1], LEARNING_RATE_INV),
                        RoundDiv(gap[2], LEARNING_RATE_INV),
                        RoundDiv(gap[3], LEARNING_RATE_INV)>>
          IN  IF Movable(objs[iM])
              THEN StepResult(SetPosition(objs, iM, Add3(vM, move)), diff, FALSE)
              ELSE StepResult(objs, diff, FALSE)

\* mutant: a type other than Midpoint falls into the Distance branch
ConstraintStepElseDistance(objs, c) ==
    IF c.type = "midpoint" THEN MidpointStep(objs, c)
    ELSE DistanceStep(objs, c)

\* the body of activeConstraints.forEach(c => ...)
ConstraintStep(objs, c) ==
    IF c.type = "distance" THEN DistanceStep(objs, c)
    ELSE IF c.type = "midpoint" THEN MidpointStep(objs, c)
    ELSE StepResult(objs, 0, FALSE)

\* one pass of activeConstraints.forEach from constraint k on; a fault ends it
RECURSIVE IterationFrom(_, _, _, _)
IterationFrom(objs, cs, k, err) ==
    IF k > Len(cs) THEN StepResult(objs, err, FALSE)
    ELSE LET r == ConstraintStep(objs, cs[k])
         IN  IF r.fault THEN StepResult(r.objs, err, TRUE)
             ELSE IterationFrom(r.objs, cs, k + 1, err + r.err)

Iteration(objs, cs) == IterationFrom(objs, cs, 1, 0)

-----------------------------------------------------------------------------
(* Constants of the store *)

INITIAL_CAMERA_POS == <<20000, 20000, 20000>>

INITIAL_CAMERA_TARGET == <<0, 0, 0>>

InitialPose ==
    [position |-> INITIAL_CAMERA_POS, target |-> INITIAL_CAMERA_TARGET]

ZeroStats == [iterations |-> 0, totalError |-> 0, verified |-> 0, total |-> 0]

\* null
Null == "null"

-----------------------------------------------------------------------------
(* Inputs of the store operations *)

\* ids a caller names: A and S are given to objects, Z to none
CallerIds == {"A", "S", "Z"}

\* values of Math.random().toString(36).substr(2, 9)
RandomIds == {"g1", "g2"}

\* payloads of addObject
ObjectPayloads ==
    { [id |-> "A", type |-> "point", data |-> [position |-> <<0, 0, 0>>]],
      [id |-> "A", type |-> "point", fixed |-> TRUE,
       data |-> [position |-> <<0, 4000, 0>>]],
      [type |-> "point", data |-> [position |-> <<8000, 0, 0>>]],
      [id |-> "S", type |-> "segment", data |-> [p1 |-> "A", p2 |-> "g1"]] }

\* arguments of updateObject
UpdateIds == {"A", "Z"}

DataPatches == { [position |-> <<0, 4000, 0>>] }

\* payloads of addConstraint
ConstraintPayloads ==
    { [id |-> "c1", type |-> "distance", objectIds |-> <<"A", "g1">>,
       targetValue |-> 4000, enabled |-> TRUE],
      [id |-> "c2", type |-> "distance", objectIds |-> <<"A", "g2">>,
       targetValue |-> 4000],
      [id |-> "c3", type |-> "midpoint", objectIds |-> <<"S", "A", "g1">>,
       enabled |-> TRUE],
      [id |-> "c4", type |-> "distance", objectIds |-> <<"g1", "g2">>,
       targetValue |-> 8000, enabled |-> FALSE] }

-----------------------------------------------------------------------------
(* State after construction of GeometryProvider *)

\* the components around the store after mounting
\* a reference that may be null is held as a set of at most one element
PlayerInit ==
    /\ playerState = "stopped"
    /\ contextState = "none"
    /\ activeSource = {}
    /\ audioCache = {}
    /\ playbackIndex = 0
    /\ sources = {}
    /\ timers = {}
    /\ toggling = {}

\* no generateGeometryAction call made yet
GenIdle ==
    /\ genPc = "idle"
    /\ isRetry = FALSE
    /\ requests = 0
    /\ responses = << >>
    /\ result = [kind |-> "none"]

AppInit ==
    /\ initialized = FALSE
    /\ prevCount = 0
    /\ PlayerInit
    /\ apiKey = TRUE
    /\ GenIdle

SolveIdle ==
    /\ pc = "idle"
    /\ currentObjects = << >>
    /\ activeConstraints = << >>
    /\ iter = 0
    /\ iterError = 0
    /\ totalResidual = 0

Init ==
    /\ objects = << >>
    /\ constraints = << >>
    /\ steps = << >>
    /\ activeStepId = Null
    /\ cameraPose = InitialPose
    /\ notebookPose = Null
    /\ solverStats = ZeroStats
    /\ objectsRef = << >>
    /\ constraintsRef = << >>
    /\ SolveIdle
    /\ solves = 0
    /\ before = [objects |-> << >>, solverStats |-> ZeroStats]
    /\ last = [op |-> "init"]
    /\ AppInit

\* useEffect(() => { objectsRef.current = objects }, [objects]) and its twin
\* run after the render that follows a handler
SyncRefs ==
    /\ objectsRef' = objects'
    /\ constraintsRef' = constraints'

-----------------------------------------------------------------------------
(* Store operations *)

\* addObject, normalisation of the payload (lines 130-155)
\* !obj.id
NeedsId(obj) == ~Has(obj, "id") \/ obj.id = ""

WithId(obj, rnd) == IF NeedsId(obj) THEN SetField(obj, "id", rnd) ELSE obj

WithVisible(obj) ==
    IF ~Has(obj, "visible") THEN SetField(obj, "visible", TRUE) ELSE obj

\* !obj.points || obj.points.length === 0
NoPoints(obj) == ~Has(obj, "points") \/ Len(obj.points) = 0

\* mutant: the endpoint fields are copied in the opposite order
WithSegmentPointsReversed(obj) ==
    IF obj.type = "segment" /\ NoPoints(obj) /\ Has(obj, "data")
    THEN IF Has(obj.data, "p1") /\ Has(obj.data, "p2")
         THEN SetField(obj, "points", <<obj.data.p2, obj.data.p1>>)
         ELSE IF Has(obj.data, "points")
              THEN SetField(obj, "points", obj.data.points)
              ELSE obj
    ELSE obj

WithSegmentPoints(obj) ==
    IF obj.type = "segment" /\ NoPoints(obj) /\ Has(obj, "data")
    THEN IF Has(obj.data, "p1") /\ Has(obj.data, "p2")
         THEN SetField(obj, "points", <<obj.data.p1, obj.data.p2>>)
         ELSE IF Has(obj.data, "points")
              THEN SetField(obj, "points", obj.data.points)
              ELSE obj
    ELSE obj

WithPolygonPoints(obj) ==
    IF obj.type = "polygon" /\ NoPoints(obj) /\ Has(obj, "data")
       /\ Has(obj.data, "points")
    THEN SetField(obj, "points", obj.data.points)
    ELSE obj

Normalize(rawObj, rnd) ==
    WithPolygonPoints(WithSegmentPoints(WithVisible(WithId(rawObj, rnd))))

\* mutant: the object is appended whether or not its id is stored
UpsertAppending(prev, obj) == Append(prev, obj)

\* Overwrite if ID exists, else append (lines 158-164)
Upsert(prev, obj) ==
    LET existsIndex == FindIndex(prev, obj.id)
    IN  IF existsIndex > 0 THEN [prev EXCEPT ![existsIndex] = obj]
        ELSE Append(prev, obj)

AddObject(rawObj, rnd) ==
    /\ pc = "idle"
    /\ LET obj == Normalize(rawObj, rnd)
       IN  /\ Len(Upsert(objects, obj)) <= MaxObjects
           /\ objects' = Upsert(objects, obj)
           /\ last' = [op |-> "addObject", obj |-> obj,
                        generated |-> NeedsId(rawObj),
                        replaced |-> obj.id \in IdsOf(objects)]
    /\ UNCHANGED <<constraints, steps, activeStepId, cameraPose, notebookPose,
                   solverStats, solveVars, before>>
    /\ SyncRefs
    /\ UNCHANGED appVars

\* mutant: the data bag is replaced by the given fields
MergeDataReplacing(o, data) == SetField(o, "data", data)

\* prev.map(o => o.id === id ? { ...o, data: { ...o.data, ...data } } : o)
MergeData(o, data) ==
    SetField(o, "data",
             Spread(IF Has(o, "data") THEN o.data ELSE EmptyObject, data))

UpdateObject(id, data) ==
    /\ pc = "idle"
    /\ objects' = [i \in 1..Len(objects) |->
                     IF objects[i].id = id THEN MergeData(objects[i], data)
                     ELSE objects[i]]
    /\ last' = [op |-> "updateObject", id |-> id,
                 found |-> id \in IdsOf(objects)]
    /\ UNCHANGED <<constraints, steps, activeStepId, cameraPose, notebookPose,
                   solverStats, solveVars, before>>
    /\ SyncRefs
    /\ UNCHANGED appVars

\* prev.filter(o => o.id !== id)
WithoutObject(objs, id) ==
    LET Keep(o) == o.id # id IN SelectSeq(objs, Keep)

\* mutant: only the first operand is compared with id
WithoutConstraintsOnFirst(cs, id) ==
    LET Keep(c) == c.objectIds[1] # id IN SelectSeq(cs, Keep)

\* prev.filter(c => !c.objectIds.includes(id))
WithoutConstraintsOn(cs, id) ==
    LET Keep(c) == ~Includes(c.objectIds, id) IN SelectSeq(cs, Keep)

RemoveObject(id) ==
    /\ pc = "idle"
    /\ objects' = WithoutObject(objects, id)
    /\ constraints' = WithoutConstraintsOn(constraints, id)
    /\ last' = [op |-> "removeObject", id |-> id,
                 found |-> id \in IdsOf(objects),
                 cascaded |-> Len(constraints) - Len(constraints')]
    /\ UNCHANGED <<steps, activeStepId, cameraPose, notebookPose, solverStats,
                   solveVars, before>>
    /\ SyncRefs
    /\ UNCHANGED appVars

\* setConstraints(prev => [...prev, c])
AddConstraint(c) ==
    /\ pc = "idle"
    /\ Len(constraints) < MaxConstraints
    /\ ~Includes(constraints, c)
    /\ constraints' = Append(constraints, c)
    /\ last' = [op |-> "addConstraint", id |-> c.id,
                 hadEnabled |-> Has(c, "enabled")]
    /\ UNCHANGED <<objects, steps, activeStepId, cameraPose, notebookPose,
                   solverStats, solveVars, before>>
    /\ SyncRefs
    /\ UNCHANGED appVars

\* mutant: resetScene leaves the solver statistics as they are
ResetSceneKeepingStats ==
    /\ pc = "idle"
    /\ objects' = << >>
    /\ constraints' = << >>
    /\ steps' = << >>
    /\ activeStepId' = Null
    /\ notebookPose' = Null
    /\ cameraPose' = InitialPose
    /\ solves' = 0
    /\ last' = [op |-> "resetScene"]
    /\ UNCHANGED <<solverStats, pc, currentObjects, activeConstraints, iter,
                   iterError, totalResidual, before>>
    /\ SyncRefs
    /\ UNCHANGED appVars

ResetScene ==
    /\ pc = "idle"
    /\ objects' = << >>
    /\ constraints' = << >>
    /\ steps' = << >>
    /\ activeStepId' = Null
    /\ notebookPose' = Null
    /\ solverStats' = ZeroStats
    /\ cameraPose' = InitialPose
    /\ solves' = 0
    /\ last' = [op |-> "resetScene"]
    /\ UNCHANGED <<pc, currentObjects, activeConstraints, iter, iterError,
                   totalResidual, before>>
    /\ SyncRefs
    /\ UNCHANGED appVars

-----------------------------------------------------------------------------
(* solve() (lines 48-126), one action per loop iteration *)

\* mutant: the working copy is written to the store when a step throws
AfterThrowWritesWorkingCopy(stored, working) == working

\* an exception thrown inside the loop leaves solve() before setObjects and
\* setSolverStats (lines 116-124) are reached: the store keeps its value
AfterThrow(stored, working) == stored

\* solve() returns or is left by an exception: its locals are gone
SolveReturn ==
    /\ pc' = "idle"
    /\ currentObjects' = << >>
    /\ activeConstraints' = << >>
    /\ iter' = 0
    /\ iterError' = 0
    /\ totalResidual' = 0

SolveBegin ==
    /\ pc = "idle"
    /\ solves < MaxSolves
    /\ solves' = solves + 1
    /\ currentObjects' = JsonClone(objectsRef)
    /\ activeConstraints' = ActiveConstraints(constraintsRef)
    /\ iter' = 0
    /\ iterError' = 0
    /\ totalResidual' = 0
    /\ pc' = "loop"
    /\ before' = [objects |-> objects, solverStats |-> solverStats]
    /\ last' = [op |-> "solve", outcome |-> "running"]
    /\ UNCHANGED storeVars
    /\ UNCHANGED appVars

\* one pass of the for loop that ends normally
SolveIterate ==
    /\ pc = "loop"
    /\ iter < MAX_ITER
    /\ \E r \in {Iteration(currentObjects, activeConstraints)} :
           /\ ~r.fault
           /\ currentObjects' = r.objs
           /\ iterError' = r.err
           /\ IF r.err < CONVERGENCE
              THEN /\ pc' = "commit"
                   /\ UNCHANGED <<iter, totalResidual>>
              ELSE /\ totalResidual' = r.err
                   /\ iter' = iter + 1
                   /\ pc' = IF iter + 1 < MAX_ITER THEN "loop" ELSE "commit"
    /\ UNCHANGED <<storeVars, activeConstraints, solves, before, last>>
    /\ UNCHANGED appVars

\* a pass in which a constraint step throws
SolveThrow ==
    /\ pc = "loop"
    /\ iter < MAX_ITER
    /\ \E r \in {Iteration(currentObjects, activeConstraints)} :
           /\ r.fault
           /\ objects' = AfterThrow(objects, r.objs)
           /\ last' = [op |-> "solve", outcome |-> "threw",
                        dirty |-> r.objs # objects]
    /\ SolveReturn
    /\ UNCHANGED <<constraints, steps, activeStepId, cameraPose, notebookPose,
                   solverStats, solves, before>>
    /\ SyncRefs
    /\ UNCHANGED appVars

\* setObjects(currentObjects); setSolverStats({...}) (lines 116-124)
SolveCommit ==
    /\ pc = "commit"
    /\ objects' = currentObjects
    /\ solverStats' = [iterations |-> MAX_ITER,
                       totalError |-> totalResidual,
                       verified |-> Len(activeConstraints),
                       total |-> Len(activeConstraints)]
    /\ SolveReturn
    /\ last' = [op |-> "solve", outcome |-> "committed",
                ran |-> IF iterError < CONVERGENCE THEN iter + 1 ELSE iter,
                converged |-> iterError < CONVERGENCE,
                lastIterError |-> iterError]
    /\ UNCHANGED <<constraints, steps, activeStepId, cameraPose, notebookPose,
                   solves, before>>
    /\ SyncRefs
    /\ UNCHANGED appVars

-----------------------------------------------------------------------------
(* solve() as a function of the store it reads: the same loop, run to its end *)

RECURSIVE SolveLoop(_, _, _, _)
SolveLoop(objs, cs, it, residual) ==
    IF it >= MAX_ITER
    THEN [fault |-> FALSE, objs |-> objs, totalError |-> residual]
    ELSE LET r == Iteration(objs, cs)
         IN  IF r.fault
             THEN [fault |-> TRUE, objs |-> r.objs, totalError |-> residual]
             ELSE IF r.err < CONVERGENCE
             THEN [fault |-> FALSE, objs |-> r.objs, totalError |-> residual]
             ELSE SolveLoop(r.objs, cs, it + 1, r.err)

\* what solve() leaves in the store when it finds objs, cs and stats there
SolveRun(objs, cs, stats) ==
    LET active == ActiveConstraints(cs)
        res == SolveLoop(JsonClone(objs), active, 0, 0)
    IN  IF res.fault
        THEN [fault |-> TRUE, objects |-> AfterThrow(objs, res.objs),
              solverStats |-> stats]
        ELSE [fault |-> FALSE, objects |-> res.objs,
              solverStats |-> [iterations |-> MAX_ITER,
                               totalError |-> res.totalError,
                               verified |-> Len(active),
                               total |-> Len(active)]]

-----------------------------------------------------------------------------
(* The store driven by its callers *)

Next ==
    \/ \E rawObj \in ObjectPayloads, rnd \in RandomIds : AddObject(rawObj, rnd)
    \/ \E id \in UpdateIds, data \in DataPatches : UpdateObject(id, data)
    \/ \E id \in CallerIds \cup RandomIds : RemoveObject(id)
    \/ \E c \in ConstraintPayloads : AddConstraint(c)
    \/ ResetScene

Spec == Init /\ [][Next]_vars

-----------------------------------------------------------------------------
(* The solver run on a scene *)

\* scenes: three objects A, B, M, each in one of its shapes
SceneA ==
    { [id |-> "A", type |-> "point", visible |-> TRUE,
       data |-> [position |-> <<0, 0, 0>>]],
      [id |-> "A", type |-> "point", visible |-> TRUE, fixed |-> TRUE,
       data |-> [position |-> <<0, 0, 0>>]] }

SceneB ==
    { [id |-> "B", type |-> "point", visible |-> TRUE,
       data |-> [position |-> <<8000, 0, 0>>]],
      [id |-> "B", type |-> "point", visible |-> TRUE, fixed |-> TRUE,
       data |-> [position |-> <<8000, 0, 0>>]],
      [id |-> "B", type |-> "circle", visible |-> TRUE,
       data |-> [position |-> <<8000, 0, 0>>, radius |-> 4000]],
      [id |-> "B", type |-> "point", visible |-> TRUE,
       data |-> [radius |-> 4000]] }

SceneM ==
    { [id |-> "M", type |-> "point", visible |-> TRUE,
       data |-> [position |-> <<0, 12000, 0>>]],
      [id |-> "M", type |-> "point", visible |-> TRUE, fixed |-> TRUE,
       data |-> [position |-> <<0, 12000, 0>>]],
      [id |-> "M", type |-> "point", visible |-> TRUE] }

SceneObjects == {<<a, b, m>> : a \in SceneA, b \in SceneB, m \in SceneM}

SceneConstraintCatalogue ==
    { [id |-> "d1", type |-> "distance", objectIds |-> <<"A", "B">>,
       targetValue |-> 4000, enabled |-> TRUE],
      [id |-> "d2", type |-> "distance", objectIds |-> <<"A", "B">>,
       targetValue |-> 12000, enabled |-> FALSE],
      [id |-> "d3", type |-> "distance", objectIds |-> <<"A", "Z">>,
       targetValue |-> 4000, enabled |-> TRUE],
      [id |-> "m1", type |-> "midpoint", objectIds |-> <<"M", "A", "B">>,
       enabled |-> TRUE],
      [id |-> "m2", type |-> "midpoint", objectIds |-> <<"M", "A", "Z">>,
       enabled |-> TRUE],
      [id |-> "a1", type |-> "angle", objectIds |-> <<"A", "B">>,
       targetValue |-> 90, enabled |-> TRUE] }

\* lists of distinct catalogue constraints
SceneConstraints ==
    { cs \in UNION {[1..n -> SceneConstraintCatalogue] :
                       n \in 0..MaxSceneConstraints} :
        \A i, j \in 1..Len(cs) : i # j => cs[i] # cs[j] }

SolveInit ==
    /\ objects \in SceneObjects
    /\ constraints \in SceneConstraints
    /\ steps = << >>
    /\ activeStepId = Null
    /\ cameraPose = InitialPose
    /\ notebookPose = Null
    /\ solverStats = ZeroStats
    /\ objectsRef = objects
    /\ constraintsRef = constraints
    /\ SolveIdle
    /\ solves = 0
    /\ before = [objects |-> << >>, solverStats |-> ZeroStats]
    /\ last = [op |-> "init"]
    /\ AppInit

SolveNext ==
    \/ SolveBegin
    \/ SolveIterate
    \/ SolveThrow
    \/ SolveCommit

SolveSpec == SolveInit /\ [][SolveNext]_vars

-----------------------------------------------------------------------------
(* Properties of solve(), checked under SolveSpec *)

SolveCommitted == last.op = "solve" /\ last.outcome = "committed"

SolveThrew == last.op = "solve" /\ last.outcome = "threw"

NamedBy(cid) == \E k \in 1..Len(constraints) : constraints[k].id = cid

\* C1: an object that is fixed when solve() is called has, in the working
\* copy of every iteration and in the objects solve() leaves in the store,
\* exactly the value (and so the position) it had before the call.
C1_FixedObjectsKeepPosition ==
    \A i \in 1..Len(before.objects) :
        Truthy(before.objects[i], "fixed") =>
            /\ pc # "idle" => currentObjects[i] = before.objects[i]
            /\ last.op = "solve" => objects[i] = before.objects[i]

\* a committed solve() with A and M fixed, the Distance constraint d1 on A
\* and B and the Midpoint constraint m1 on M enabled, which moved B
C1_Witness ==
    /\ SolveCommitted
    /\ Truthy(before.objects[1], "fixed")
    /\ Truthy(before.objects[3], "fixed")
    /\ NamedBy("d1")
    /\ NamedBy("m1")
    /\ objects[2] # before.objects[2]

\* C2: while solve() runs the store holds the objects and the stats it held
\* at the call (no iteration is observable), and when a constraint step throws
\* the store's objects and stats are what they were before the call.
C2_SolveCommitsAllOrNothing ==
    /\ pc # "idle" =>
          /\ objects = before.objects
          /\ objectsRef = before.objects
          /\ solverStats = before.solverStats
    /\ SolveThrew =>
          /\ objects = before.objects
          /\ solverStats = before.solverStats

\* a solve() left by an exception after a step had moved the working copy
C2_Witness == SolveThrew /\ last.dirty

\* the constraint list without the constraints that have enabled = false
WithoutDisabled(cs) ==
    SelectSeq(cs, LAMBDA c : ~(Has(c, "enabled") /\ c.enabled = FALSE))

\* C7: solve() ends as it would with every enabled = false constraint taken
\* out of the list: the same objects, the same stats, a fault in the same cases.
C7_DisabledConstraintsInert ==
    (last.op = "solve" /\ last.outcome # "running") =>
        \E ref \in {SolveRun(before.objects, WithoutDisabled(constraints),
                             before.solverStats)} :
            /\ ref.fault = SolveThrew
            /\ objects = ref.objects
            /\ solverStats = ref.solverStats

\* a committed solve() that moved an object while the list held a disabled
\* Distance constraint whose two endpoints both carry a position
C7_Witness ==
    /\ SolveCommitted
    /\ objects # before.objects
    /\ \E k \in 1..Len(constraints) :
          /\ Has(constraints[k], "enabled")
          /\ constraints[k].enabled = FALSE
          /\ constraints[k].type = "distance"
          /\ DistanceApplies(objects, Resolve(objects, constraints[k], 1),
                             Resolve(objects, constraints[k], 2))

\* C8 as claimed: an operand without position data never makes solve() throw
\* (the step is skipped and the result is committed), for Midpoint as for
\* Distance.
C8_MissingPositionIsSkipped == last.op = "solve" => last.outcome # "threw"

\* operands a constraint type reads
OperandCount(c) ==
    IF c.type = "distance" THEN 2 ELSE IF c.type = "midpoint" THEN 3 ELSE 0

\* a Distance or Midpoint constraint one of whose operands is in no object
IsDangling(c, objs) ==
    \E k \in 1..OperandCount(c) :
        k > Len(c.objectIds) \/ c.objectIds[k] \notin IdsOf(objs)

WithoutDangling(cs, objs) == SelectSeq(cs, LAMBDA c : ~IsDangling(c, objs))

\* C9: solve() ends as it would with every dangling Distance or Midpoint
\* constraint taken out of the list: a fault in the same cases only, the same
\* objects, the same reported error.
C9_DanglingConstraintsInert ==
    (last.op = "solve" /\ last.outcome # "running") =>
        \E ref \in {SolveRun(before.objects,
                             WithoutDangling(constraints, before.objects),
                             before.solverStats)} :
            /\ ref.fault = SolveThrew
            /\ objects = ref.objects
            /\ solverStats.totalError = ref.solverStats.totalError

\* a committed solve() that moved an object while the list held an enabled
\* Midpoint constraint with a dangling operand
C9_Witness ==
    /\ SolveCommitted
    /\ objects # before.objects
    /\ \E k \in 1..Len(constraints) :
          /\ IsEnabled(constraints[k])
          /\ constraints[k].type = "midpoint"
          /\ IsDangling(constraints[k], objects)

-----------------------------------------------------------------------------
(* Properties of the store operations, checked under Spec *)

\* C3: removeObject(id) leaves no object with that id and no constraint whose
\* objectIds contain it, and keeps every other object and every other
\* constraint, in their order.
C3_RemoveObjectCascades ==
    [][last'.op = "removeObject" =>
         /\ last'.id \notin IdsOf(objects')
         /\ \A k \in 1..Len(constraints') :
               ~Includes(constraints'[k].objectIds, last'.id)
         /\ objects' = SelectSeq(objects, LAMBDA o : o.id # last'.id)
         /\ constraints' =
               SelectSeq(constraints,
                         LAMBDA c : \A k \in 1..Len(c.objectIds) :
                                        c.objectIds[k] # last'.id)]_vars

\* a removeObject that found its object and took constraints with it, after
\* which two objects and a constraint are left
C3_Witness ==
    /\ last.op = "removeObject"
    /\ last.found
    /\ last.cascaded >= 1
    /\ Len(objects) >= 2
    /\ Len(constraints) >= 1

IdsUnique(objs) ==
    \A i, j \in 1..Len(objs) : objs[i].id = objs[j].id => i = j

\* C4 as claimed: the ids of the stored objects are pairwise different, and an
\* id generated by addObject is the id of no object stored before the call.
C4_IdsUniqueAndGeneratedIdFresh ==
    /\ IdsUnique(objects)
    /\ (last.op = "addObject" /\ last.generated) => ~last.replaced

\* C5: addObject of an object whose id is stored replaces the object at that
\* index and leaves the length and every other object as they were; otherwise
\* it appends the object and the length grows by one.
C5_AddObjectUpserts ==
    [][last'.op = "addObject" =>
         IF \E k \in 1..Len(objects) : objects[k].id = last'.obj.id
         THEN /\ Len(objects') = Len(objects)
              /\ \A k \in 1..Len(objects) :
                    objects'[k] = IF objects[k].id = last'.obj.id
                                  THEN last'.obj ELSE objects[k]
         ELSE objects' = objects \o <<last'.obj>>]_vars

\* an addObject that replaced the first of two or more stored objects
C5_Witness ==
    /\ last.op = "addObject"
    /\ last.replaced
    /\ Len(objects) >= 2
    /\ objects[1] = last.obj

\* C6 as claimed: addConstraint puts the constraint last in the list, and a
\* constraint given without an enabled field is stored with enabled = true, so
\* that solve() takes it.
C6_EnabledDefaultsToTrue ==
    (last.op = "addConstraint" /\ ~last.hadEnabled) =>
        /\ constraints[Len(constraints)].id = last.id
        /\ IsEnabled(constraints[Len(constraints)])

-----------------------------------------------------------------------------
(* The stats solve() reports, checked under SolveSpec *)

\* C11 as claimed: the residual solve() reports (solverStats.totalError) is
\* the summed error of the last iteration it ran, both when it stopped early
\* below the threshold and when it reached the cap of 50 iterations.
C11_ResidualIsOfLastIteration ==
    SolveCommitted => solverStats.totalError = last.lastIterError

\* C12 as claimed: the iterations field solve() reports is the number of
\* iterations it ran, at most 50 and 1 when the first iteration converged.
C12_IterationsIsIterationsRun ==
    SolveCommitted =>
        /\ solverStats.iterations = last.ran
        /\ solverStats.iterations <= MAX_ITER

-----------------------------------------------------------------------------
(* The solver run on scenes of one kind of constraint: a Distance            *)
(* constraint on two points, a Midpoint constraint on three, or constraints *)
(* of the types solve() has no branch for                                   *)

CasePoint(id, p, fixed) ==
    IF fixed
    THEN [id |-> id, type |-> "point", visible |-> TRUE, fixed |-> TRUE,
          data |-> [position |-> p]]
    ELSE [id |-> id, type |-> "point", visible |-> TRUE,
          data |-> [position |-> p]]

CaseOrigin == <<0, 0, 0>>

\* B at 2.5 units in a plane, at 3 units off every axis, and on A itself
CaseEnds == { <<6000, 8000, 0>>, <<4000, 8000, 8000>>, <<0, 0, 0>> }

\* B at 10 units from A, along an axis and on a diagonal
CaseFarEnds == { <<40000, 0, 0>>, <<24000, 32000, 0>> }

\* a Distance constraint on A and B with target 5
CaseTargetFive ==
    [id |-> "d", type |-> "distance", objectIds |-> <<"A", "B">>,
     targetValue |-> 20000, enabled |-> TRUE]

\* Distance constraints on A and B: target 5, target 1, and no targetValue
CaseDistanceConstraints ==
    { CaseTargetFive,
      [id |-> "d", type |-> "distance", objectIds |-> <<"A", "B">>,
       targetValue |-> 4000, enabled |-> TRUE],
      [id |-> "d", type |-> "distance", objectIds |-> <<"A", "B">>,
       enabled |-> TRUE] }

\* products of a coordinate and an error stay below 2^30 in these scenes
DistanceScenes ==
    { [objects |-> <<CasePoint("A", CaseOrigin, fa), CasePoint("B", b, fb)>>,
       constraints |-> <<c>>] :
        fa \in BOOLEAN, fb \in BOOLEAN, b \in CaseEnds,
        c \in CaseDistanceConstraints }
    \cup
    { [objects |-> <<CasePoint("A", CaseOrigin, fa), CasePoint("B", b, fb)>>,
       constraints |-> <<CaseTargetFive>>] :
        fa \in BOOLEAN, fb \in BOOLEAN, b \in CaseFarEnds }

MidpointScenes ==
    { [objects |-> <<CasePoint("M", m, fm), CasePoint("A", CaseOrigin, fa),
                     CasePoint("B", b, FALSE)>>,
       constraints |-> << [id |-> "m", type |-> "midpoint",
                           objectIds |-> <<"M", "A", "B">>,
                           enabled |-> TRUE] >>] :
        fm \in BOOLEAN, fa \in BOOLEAN,
        m \in { <<0, 12000, 0>>, <<4000, 3000, 2000>> },
        b \in { <<8000, 0, 0>>, <<8000, 6000, 4000>> } }

\* one constraint of every ConstraintType but Distance and Midpoint
InertConstraints ==
    { [id |-> "i1", type |-> "angle", objectIds |-> <<"A", "B">>,
       targetValue |-> 90, enabled |-> TRUE],
      [id |-> "i2", type |-> "parallel", objectIds |-> <<"A", "B">>,
       enabled |-> TRUE],
      [id |-> "i3", type |-> "perpendicular", objectIds |-> <<"B", "M">>,
       enabled |-> TRUE],
      [id |-> "i4", type |-> "pointOnPlane", objectIds |-> <<"M", "Z">>,
       enabled |-> TRUE],
      [id |-> "i5", type |-> "pointOnLine", objectIds |-> <<"M", "A", "B">>,
       enabled |-> TRUE],
      [id |-> "i6", type |-> "equalLength", objectIds |-> <<"B", "A">>,
       targetValue |-> 4000, enabled |-> TRUE],
      [id |-> "i7", type |-> "fixedCoord", objectIds |-> <<"B">>,
       targetValue |-> 0, enabled |-> TRUE] }

InertScenes ==
    { [objects |-> <<CasePoint("A", CaseOrigin, FALSE),
                     CasePoint("B", <<8000, 0, 0>>, FALSE),
                     CasePoint("M", <<0, 12000, 0>>, FALSE)>>,
       constraints |-> cs] :
        cs \in {<<c>> : c \in InertConstraints}
               \cup {<<c1, c2>> : c1 \in InertConstraints,
                                  c2 \in InertConstraints} }

CaseScenes == DistanceScenes \cup MidpointScenes \cup InertScenes

CaseInit ==
    /\ \E sc \in CaseScenes :
           /\ objects = sc.objects
           /\ constraints = sc.constraints
           /\ objectsRef = sc.objects
           /\ constraintsRef = sc.constraints
    /\ steps = << >>
    /\ activeStepId = Null
    /\ cameraPose = InitialPose
    /\ notebookPose = Null
    /\ solverStats = ZeroStats
    /\ SolveIdle
    /\ solves = 0
    /\ before = [objects |-> << >>, solverStats |-> ZeroStats]
    /\ last = [op |-> "init"]
    /\ AppInit

\* no step of these scenes throws
CaseNext ==
    \/ SolveBegin
    \/ SolveIterate
    \/ SolveCommit

CaseSpec == CaseInit /\ [][CaseNext]_vars

-----------------------------------------------------------------------------
(* Properties of the constraint steps, checked under CaseSpec *)

\* a type solve() has no branch for
OtherType(c) == c.type \notin {"distance", "midpoint"}

AllEnabledOfOtherTypes ==
    \A k \in 1..Len(constraints) :
        IsEnabled(constraints[k]) => OtherType(constraints[k])

\* C13: when every enabled constraint is of a type other than Distance and
\* Midpoint, no iteration of solve() changes the working copy or finds an
\* error, and solve() commits the objects as they were with residual 0.
C13_OtherTypesInert ==
    AllEnabledOfOtherTypes =>
        /\ pc # "idle" => currentObjects = objects /\ iterError = 0
        /\ SolveCommitted =>
              /\ objects = before.objects
              /\ solverStats.totalError = 0
              /\ last.lastIterError = 0

\* a committed solve() on two enabled constraints of other types, one of which
\* names two objects that carry positions
C13_Witness ==
    /\ SolveCommitted
    /\ AllEnabledOfOtherTypes
    /\ Len(constraints) = 2
    /\ solverStats.total = 2
    /\ \E k \in 1..2 :
          /\ Resolve(objects, constraints[k], 1)
                # Resolve(objects, constraints[k], 2)
          /\ DistanceApplies(objects, Resolve(objects, constraints[k], 1),
                             Resolve(objects, constraints[k], 2))

\* a pass of the loop of solve(): from the working copy to the next one
IterationStep == pc = "loop" /\ pc' \in {"loop", "commit"}

PositionOf(objs, i) == objs[i].data.position

\* the pass is one Distance step on A = currentObjects[1] and
\* B = currentObjects[2], at a distance above 1e-4
DistanceCase ==
    /\ Len(activeConstraints) = 1
    /\ activeConstraints[1].type = "distance"
    /\ Len(currentObjects) = 2
    /\ DistanceTo(PositionOf(currentObjects, 1), PositionOf(currentObjects, 2))
          > 0

\* (B - A) x ((d - target) / d) x 0.5 x 0.5
ClaimedOffset(a, b, t) ==
    LET d == DistanceTo(a, b)
    IN  <<RoundDiv((b[1] - a[1]) * (d - t), 4 * d),
          RoundDiv((b[2] - a[2]) * (d - t), 4 * d),
          RoundDiv((b[3] - a[3]) * (d - t), 4 * d)>>

\* C16: one Distance step on two non-fixed endpoints at distance d > 1e-4
\* moves A by +offset and B by -offset, offset = (B - A) x ((d - target) / d)
\* x 0.5 x 0.5: the displacements are equal and opposite, A + B is unchanged,
\* and the new distance is no farther from target than d, and closer when d is
\* off target by the threshold or more.
C16_DistanceStepBothFree ==
    [][(/\ IterationStep
        /\ DistanceCase
        /\ Movable(currentObjects[1])
        /\ Movable(currentObjects[2])) =>
          LET a == PositionOf(currentObjects, 1)
              b == PositionOf(currentObjects, 2)
              a2 == PositionOf(currentObjects', 1)
              b2 == PositionOf(currentObjects', 2)
              t == TargetValue(activeConstraints[1])
              d == DistanceTo(a, b)
              off == ClaimedOffset(a, b, t)
          IN  /\ a2 = Add3(a, off)
              /\ b2 = Sub3(b, off)
              /\ Sub3(a2, a) = Sub3(b, b2)
              /\ Add3(a2, b2) = Add3(a, b)
              /\ Abs(DistanceTo(a2, b2) - t) <= Abs(d - t)
              /\ Abs(d - t) >= CONVERGENCE =>
                    Abs(DistanceTo(a2, b2) - t) < Abs(d - t)]_vars

\* after two or more Distance steps on two free endpoints off every axis,
\* both have left their stored positions
C16_Witness ==
    /\ pc = "loop"
    /\ iter >= 2
    /\ Len(activeConstraints) = 1
    /\ activeConstraints[1].type = "distance"
    /\ Movable(currentObjects[1])
    /\ Movable(currentObjects[2])
    /\ PositionOf(objects, 2) = <<4000, 8000, 8000>>
    /\ PositionOf(currentObjects, 1) # PositionOf(objects, 1)
    /\ PositionOf(currentObjects, 2) # PositionOf(objects, 2)

\* the objects with nothing fixed
Unfixed(objs) == [i \in 1..Len(objs) |-> SetField(objs[i], "fixed", FALSE)]

\* C17: one Distance step with exactly one endpoint fixed and d > 1e-4 leaves
\* the fixed endpoint where it is and moves the free endpoint by the whole
\* offset (B - A) x ((d - target) / d) x 0.5 x 0.5, to the place the step
\* would move it to if both endpoints were free.
C17_DistanceStepOneFixed ==
    [][(/\ IterationStep
        /\ DistanceCase
        /\ Movable(currentObjects[1]) # Movable(currentObjects[2])) =>
          LET a == PositionOf(currentObjects, 1)
              b == PositionOf(currentObjects, 2)
              a2 == PositionOf(currentObjects', 1)
              b2 == PositionOf(currentObjects', 2)
              off == ClaimedOffset(a, b, TargetValue(activeConstraints[1]))
              free == DistanceStep(Unfixed(currentObjects),
                                   activeConstraints[1]).objs
          IN  IF Movable(currentObjects[1])
              THEN /\ b2 = b
                   /\ a2 = Add3(a, off)
                   /\ a2 = PositionOf(free, 1)
              ELSE /\ a2 = a
                   /\ b2 = Sub3(b, off)
                   /\ b2 = PositionOf(free, 2)]_vars

\* after a Distance step with A fixed and B free, B has moved and A has not
C17_Witness ==
    /\ pc = "loop"
    /\ iter >= 1
    /\ Len(activeConstraints) = 1
    /\ activeConstraints[1].type = "distance"
    /\ ~Movable(currentObjects[1])
    /\ Movable(currentObjects[2])
    /\ PositionOf(currentObjects, 1) = PositionOf(objects, 1)
    /\ PositionOf(currentObjects, 2) # PositionOf(objects, 2)

\* the scene is M, A, B under one Midpoint(M, A, B) constraint
MidpointCase ==
    /\ Len(constraints) = 1
    /\ constraints[1].type = "midpoint"
    /\ IsEnabled(constraints[1])
    /\ Len(objects) = 3

\* (A + B) / 2
ClaimedMidpoint(a, b) ==
    <<RoundDiv(a[1] + b[1], 2), RoundDiv(a[2] + b[2], 2),
      RoundDiv(a[3] + b[3], 2)>>

\* C18: a Midpoint(M, A, B) step leaves A and B as they are; it moves a free
\* M to M + 0.5 x ((A + B) / 2 - M), which halves the gap to the midpoint, and
\* leaves a fixed M; solve() commits A and B as they were stored.
C18_MidpointStepMovesOnlyM ==
    [][/\ (IterationStep /\ MidpointCase) =>
            LET m == PositionOf(currentObjects, 1)
                m2 == PositionOf(currentObjects', 1)
                mid == ClaimedMidpoint(PositionOf(currentObjects, 2),
                                       PositionOf(currentObjects, 3))
            IN  /\ currentObjects'[2] = currentObjects[2]
                /\ currentObjects'[3] = currentObjects[3]
                /\ IF Movable(currentObjects[1])
                   THEN /\ m2 = <<m[1] + RoundDiv(mid[1] - m[1], 2),
                                  m[2] + RoundDiv(mid[2] - m[2], 2),
                                  m[3] + RoundDiv(mid[3] - m[3], 2)>>
                        /\ 2 * DistanceTo(m2, mid) <= DistanceTo(m, mid) + 2
                   ELSE m2 = m
       /\ (pc = "commit" /\ pc' = "idle" /\ MidpointCase) =>
            /\ objects'[2] = objects[2]
            /\ objects'[3] = objects[3]]_vars

\* a committed solve() under a Midpoint constraint that moved M to within the
\* threshold of the midpoint of A and B, which are where they were
C18_Witness ==
    /\ SolveCommitted
    /\ MidpointCase
    /\ Movable(objects[1])
    /\ last.ran >= 2
    /\ PositionOf(objects, 1) # PositionOf(before.objects, 1)
    /\ DistanceTo(PositionOf(objects, 1),
                  ClaimedMidpoint(PositionOf(objects, 2),
                                  PositionOf(objects, 3))) < CONVERGENCE
    /\ objects[2] = before.objects[2]
    /\ objects[3] = before.objects[3]

\* the call was the first on two free points 10 units apart under one enabled
\* Distance constraint of target 5
FarCase ==
    /\ solves = 1
    /\ constraints = <<CaseTargetFive>>
    /\ Len(before.objects) = 2
    /\ Movable(before.objects[1])
    /\ Movable(before.objects[2])
    /\ DistanceTo(PositionOf(before.objects, 1),
                  PositionOf(before.objects, 2)) = 40000

\* 0.01
FarTolerance == 10 * CONVERGENCE

\* C19: for two free points 10 units apart under one enabled Distance
\* constraint of target 5, the positions one solve() commits are at a
\* distance within 0.01 of 5, and the two points have moved by equal and
\* opposite displacements, towards each other along the line that joined them
\* (off it by no more than 0.001).
C19_TenToFiveConverges ==
    (SolveCommitted /\ FarCase) =>
        LET a == PositionOf(before.objects, 1)
            b == PositionOf(before.objects, 2)
            a2 == PositionOf(objects, 1)
            b2 == PositionOf(objects, 2)
            u == Sub3(b, a)
            v == Sub3(a2, a)
        IN  /\ Abs(DistanceTo(a2, b2) - CaseTargetFive.targetValue)
                  <= FarTolerance
            /\ Sub3(a2, a) = Sub3(b, b2)
            /\ v[1] * u[1] + v[2] * u[2] + v[3] * u[3] > 0
            /\ Abs(v[1] * u[2] - v[2] * u[1]) <= CONVERGENCE * 40000
            /\ Abs(v[2] * u[3] - v[3] * u[2]) <= CONVERGENCE * 40000
            /\ Abs(v[3] * u[1] - v[1] * u[3]) <= CONVERGENCE * 40000

\* a committed first solve() on the two free points 10 units apart on a
\* diagonal, which converged after ten or more passes
C19_Witness ==
    /\ SolveCommitted
    /\ FarCase
    /\ PositionOf(before.objects, 2) = <<24000, 32000, 0>>
    /\ last.converged
    /\ last.ran >= 10
    /\ PositionOf(objects, 1) # PositionOf(before.objects, 1)

-----------------------------------------------------------------------------
(* solve() called again, checked under SolveSpec *)

\* the square of the distance between the positions of object i in two lists
SquaredMove(objs1, objs2, i) ==
    LET v == Sub3(PositionOf(objs2, i), PositionOf(objs1, i))
    IN  v[1] * v[1] + v[2] * v[2] + v[3] * v[3]

\* C20: when a solve() has converged (its last pass had a summed error below
\* 0.001), a solve() called next on the scene it committed raises no fault and
\* moves no object by more than 0.001; the committed objects of every call are
\* those the loop run from the stored scene ends with.
C20_SecondSolveWithinThreshold ==
    /\ SolveCommitted =>
          objects = SolveRun(before.objects, constraints,
                             before.solverStats).objects
    /\ (SolveCommitted /\ last.converged) =>
          LET again == SolveRun(objects, constraints, solverStats)
          IN  /\ ~again.fault
              /\ IdsOf(again.objects) = IdsOf(objects)
              /\ \A i \in 1..Len(objects) :
                    IF HasPosition(objects[i])
                    THEN SquaredMove(objects, again.objects, i)
                            <= CONVERGENCE * CONVERGENCE
                    ELSE again.objects[i] = objects[i]

\* a second solve() committed after a first one that needed several passes
\* under a Distance and a Midpoint constraint: it converged at once and moved
\* an object, by no more than the threshold
C20_Witness ==
    /\ SolveCommitted
    /\ solves = 2
    /\ last.converged
    /\ last.ran = 1
    /\ solverStats.total = 2
    /\ before.solverStats.totalError >= CONVERGENCE
    /\ objects # before.objects
    /\ \A i \in 1..Len(objects) :
          HasPosition(objects[i]) =>
              SquaredMove(before.objects, objects, i)
                  <= CONVERGENCE * CONVERGENCE

-----------------------------------------------------------------------------
(* ChatPanel.handleSend: the actions of a model reply applied to the store  *)
(* (src/unnamed/part_000, lines 435-465)                                    *)

\* the state of the store as one value
Store ==
    [objects |-> objects, constraints |-> constraints, steps |-> steps,
     activeStepId |-> activeStepId, cameraPose |-> cameraPose,
     notebookPose |-> notebookPose, solverStats |-> solverStats]

\* what resetScene() sets (lines 182-188)
ResetStore ==
    [objects |-> << >>, constraints |-> << >>, steps |-> << >>,
     activeStepId |-> Null, cameraPose |-> InitialPose,
     notebookPose |-> Null, solverStats |-> ZeroStats]

\* payload.actions.some(a => a.type === 'resetScene')
HasReset(actions) ==
    \E i \in 1..Len(actions) : actions[i].type = "resetScene"

\* mutant: the resetScene case of the switch resets the scene where it stands
OnResetActionResets(st) == ResetStore

\* case 'resetScene': break;
OnResetAction(st) == st

\* the switch on action.type (lines 446-453); rnd is what Math.random() gives
\* if addObject has to make an id
ApplyAction(st, action, rnd) ==
    IF action.type = "addObject"
    THEN [st EXCEPT !.objects = Upsert(@, Normalize(action.payload, rnd))]
    ELSE IF action.type = "updateObject"
    THEN IF Has(action.payload, "id") /\ action.payload.id # ""
         THEN [st EXCEPT !.objects =
                 [i \in 1..Len(@) |->
                    IF @[i].id = action.payload.id
                    THEN MergeData(@[i], IF Has(action.payload, "data")
                                         THEN action.payload.data
                                         ELSE EmptyObject)
                    ELSE @[i]]]
         ELSE st
    ELSE IF action.type = "addConstraint"
    THEN [st EXCEPT !.constraints = Append(@, action.payload)]
    ELSE IF action.type = "setCamera"
    THEN [st EXCEPT !.cameraPose = action.payload]
    ELSE IF action.type = "setNotebookView"
    THEN [st EXCEPT !.notebookPose = action.payload]
    ELSE IF action.type = "resetScene"
    THEN OnResetAction(st)
    ELSE st

\* payload.actions.forEach(action => ...) from action k on
RECURSIVE ApplyActionsFrom(_, _, _, _)
ApplyActionsFrom(st, actions, k, rnds) ==
    IF k > Len(actions) THEN st
    ELSE ApplyActionsFrom(ApplyAction(st, actions[k], rnds[k]), actions,
                          k + 1, rnds)

\* if (payload.stepList && payload.stepList.length > 0) (lines 460-464)
WithStepList(st, payload) ==
    IF Has(payload, "stepList") /\ Len(payload.stepList) > 0
    THEN [st EXCEPT !.steps = payload.stepList,
                    !.activeStepId = payload.stepList[1].id]
    ELSE st

\* the store after the actions and the step list of a reply
AfterActions(st, payload, rnds) ==
    LET start == IF HasReset(payload.actions) THEN ResetStore ELSE st
    IN  WithStepList(ApplyActionsFrom(start, payload.actions, 1, rnds),
                     payload)

ExecuteActions(payload, rnds) ==
    /\ pc = "idle"
    /\ \E end \in {AfterActions(Store, payload, rnds)} :
           /\ Len(end.objects) <= MaxObjects
           /\ Len(end.constraints) <= MaxConstraints
           /\ objects' = end.objects
           /\ constraints' = end.constraints
           /\ steps' = end.steps
           /\ activeStepId' = end.activeStepId
           /\ cameraPose' = end.cameraPose
           /\ notebookPose' = end.notebookPose
           /\ solverStats' = end.solverStats
    /\ solves' = IF HasReset(payload.actions) THEN 0 ELSE solves
    /\ last' = [op |-> "actions", payload |-> payload, rnds |-> rnds,
                found |-> [objects |-> Len(objects),
                           constraints |-> Len(constraints),
                           steps |-> Len(steps)]]
    /\ UNCHANGED <<pc, currentObjects, activeConstraints, iter, iterError,
                   totalResidual, before>>
    /\ SyncRefs
    /\ UNCHANGED appVars

\* replies of the model
ReplyPose == [position |-> <<32000, 32000, 32000>>, target |-> <<0, 4000, 0>>]

ReplySteps ==
    << [id |-> "s1", description |-> "base", objectIds |-> <<"A">>],
       [id |-> "s2", description |-> "top", objectIds |-> <<"A", "S">>] >>

PointA ==
    [id |-> "A", type |-> "point", data |-> [position |-> <<0, 0, 0>>]]

PointUnnamed == [type |-> "point", data |-> [position |-> <<8000, 0, 0>>]]

DistanceC1 ==
    [id |-> "c1", type |-> "distance", objectIds |-> <<"A", "g1">>,
     targetValue |-> 4000, enabled |-> TRUE]

ReplyPayloads ==
    { [messageType |-> "actions",
       actions |-> << [type |-> "addObject", payload |-> PointA],
                      [type |-> "addConstraint", payload |-> DistanceC1],
                      [type |-> "resetScene"],
                      [type |-> "addObject", payload |-> PointUnnamed] >>],
      [messageType |-> "actions",
       actions |-> << [type |-> "resetScene"] >>],
      [messageType |-> "actions",
       actions |-> << [type |-> "setCamera", payload |-> ReplyPose],
                      [type |-> "addObject",
                       payload |-> [id |-> "S", type |-> "segment",
                                    data |-> [p1 |-> "A", p2 |-> "g1"]]],
                      [type |-> "resetScene"],
                      [type |-> "setNotebookView", payload |-> ReplyPose] >>,
       stepList |-> ReplySteps],
      [messageType |-> "actions",
       actions |-> << [type |-> "addObject", payload |-> PointUnnamed],
                      [type |-> "updateObject",
                       payload |-> [id |-> "A",
                                    data |-> [position |-> <<0, 4000, 0>>]]],
                      [type |-> "updateObject",
                       payload |-> [data |-> [position |-> <<0, 8000, 0>>]]] >>],
      [messageType |-> "actions",
       actions |-> << [type |-> "addConstraint",
                       payload |-> [id |-> "c3", type |-> "midpoint",
                                    objectIds |-> <<"S", "A", "g1">>,
                                    enabled |-> TRUE]] >>,
       stepList |-> << >>],
      [messageType |-> "actions",
       actions |-> << [type |-> "removeObject", payload |-> [id |-> "A"]] >>],
      [messageType |-> "actions",
       actions |-> << [type |-> "removeConstraint",
                       payload |-> [id |-> "c1"]],
                      [type |-> "setActiveStep",
                       payload |-> [id |-> "s2"]] >>] }

ChatNext ==
    \E payload \in ReplyPayloads :
        \E rnds \in [1..Len(payload.actions) -> RandomIds] :
            ExecuteActions(payload, rnds)

ChatSpec == Init /\ [][ChatNext]_vars

-----------------------------------------------------------------------------
(* Properties of the actions of a reply, checked under ChatSpec *)

\* the places of the actions that are not resetScene
NonResetIndices(actions) ==
    SelectSeq([i \in 1..Len(actions) |-> i],
              LAMBDA i : actions[i].type # "resetScene")

\* C14: a reply whose actions hold a resetScene at any place leaves the store
\* in the state reached by resetting the scene and then applying the other
\* actions in their order (and the step list): objects and constraints added
\* by actions listed before the resetScene are in the store afterwards, and
\* the result does not depend on what the store held before.
C14_ResetAppliedFirst ==
    [][(last'.op = "actions" /\ HasReset(last'.payload.actions)) =>
          LET acts == last'.payload.actions
              idx == NonResetIndices(acts)
              others == [j \in 1..Len(idx) |-> acts[idx[j]]]
              rs == [j \in 1..Len(idx) |-> last'.rnds[idx[j]]]
              expected == WithStepList(
                              ApplyActionsFrom(ResetStore, others, 1, rs),
                              last'.payload)
          IN  /\ objects' = expected.objects
              /\ constraints' = expected.constraints
              /\ steps' = expected.steps
              /\ activeStepId' = expected.activeStepId
              /\ cameraPose' = expected.cameraPose
              /\ notebookPose' = expected.notebookPose
              /\ solverStats' = ZeroStats
              /\ \A i \in 1..Len(acts) :
                    /\ (acts[i].type = "addObject"
                        /\ ~NeedsId(acts[i].payload)) =>
                           acts[i].payload.id \in IdsOf(objects')
                    /\ acts[i].type = "addConstraint" =>
                           Includes(constraints', acts[i].payload)]_vars

\* a reply with resetScene as its third action, applied to a store that held
\* objects, constraints and steps: the object and the constraint of its first
\* two actions are in the store, with the object of its last, and no step
C14_Witness ==
    /\ last.op = "actions"
    /\ Len(last.payload.actions) = 4
    /\ last.payload.actions[3].type = "resetScene"
    /\ last.payload.actions[1].type = "addObject"
    /\ last.found.objects = MaxObjects
    /\ last.found.constraints >= 2
    /\ last.found.steps >= 1
    /\ IdsOf(objects) = {"A", last.rnds[4]}
    /\ constraints = <<DistanceC1>>
    /\ steps = << >>

\* C15 as claimed: every action of a reply has its effect on the store: after
\* a removeObject action the named object and the constraints naming it are
\* gone, after a removeConstraint action the named constraint is gone, after
\* a setActiveStep action the named step is the active one.
C15_EveryActionTypeApplied ==
    last.op = "actions" =>
        \A i \in 1..Len(last.payload.actions) :
            LET a == last.payload.actions[i]
            IN  /\ a.type = "removeObject" =>
                      /\ a.payload.id \notin IdsOf(objects)
                      /\ \A k \in 1..Len(constraints) :
                            ~Includes(constraints[k].objectIds, a.payload.id)
                /\ a.type = "removeConstraint" =>
                      \A k \in 1..Len(constraints) :
                          constraints[k].id # a.payload.id
                /\ a.type = "setActiveStep" => activeStepId = a.payload.id

-----------------------------------------------------------------------------
(* addObject, updateObject and removeObject on segments and on data bags *)

\* payloads of addObject: segments with and without an ordered id list,
\* points with one and with two data fields, an object with no data bag
EditPayloads ==
    { [id |-> "S", type |-> "segment", data |-> [p1 |-> "A", p2 |-> "B"]],
      [id |-> "S", type |-> "segment", points |-> << >>,
       data |-> [p1 |-> "B", p2 |-> "N"]],
      [id |-> "S", type |-> "segment", points |-> <<"B", "A">>,
       data |-> [p1 |-> "A", p2 |-> "B"]],
      [id |-> "A", type |-> "point", fixed |-> TRUE,
       data |-> [position |-> <<0, 0, 0>>, radius |-> 4000]],
      [id |-> "N", type |-> "point"] }

\* arguments of updateObject: S, A and N are given to objects, Z to none
EditIds == {"S", "A", "N", "Z"}

EditPatches == { [p2 |-> "C"], [position |-> <<0, 4000, 0>>, label |-> "a"] }

EditNext ==
    \/ \E rawObj \in EditPayloads, rnd \in RandomIds : AddObject(rawObj, rnd)
    \/ \E id \in EditIds, data \in EditPatches : UpdateObject(id, data)
    \/ \E id \in EditIds : RemoveObject(id)

EditSpec == Init /\ [][EditNext]_vars


\* the object stored under an id
StoredAs(objs, id) == objs[FindIndex(objs, id)]

\* C21: addObject on a segment payload whose points list is absent or empty
\* and whose data has the endpoint fields p1 and p2 stores the object with
\* points = [p1, p2] in that order; a payload with a non-empty points list
\* keeps that list.
C21_SegmentPointsFromEndpoints ==
    [][\A rawObj \in EditPayloads, rnd \in RandomIds :
          (AddObject(rawObj, rnd) /\ rawObj.type = "segment") =>
              LET id == IF Has(rawObj, "id") THEN rawObj.id ELSE rnd
                  stored == StoredAs(objects', id)
                  listed == Has(rawObj, "points") /\ rawObj.points # << >>
              IN  /\ id \in IdsOf(objects')
                  /\ (~listed /\ Has(rawObj, "data")
                      /\ {"p1", "p2"} \subseteq DOMAIN rawObj.data) =>
                         stored.points = <<rawObj.data.p1, rawObj.data.p2>>
                  /\ listed => stored.points = rawObj.points]_vars

\* the segment S stored with the ordered id lists that only a payload without
\* a list, and only a payload with an empty list, give it
C21_Witness ==
    /\ last.op = "addObject"
    /\ last.obj.id = "S"
    /\ last.replaced
    /\ StoredAs(objects, "S").points = <<"B", "N">>
    /\ StoredAs(objects, "S").data.p1 = "B"

\* C22: updateObject(id, data) shallow-merges data into the data bag of the
\* object with that id, leaving that object's other fields and every other
\* object unchanged; when no object has that id the collection is unchanged
\* in content and order.
C22_UpdateShallowMerges ==
    [][\A id \in EditIds, data \in EditPatches :
          UpdateObject(id, data) =>
              /\ Len(objects') = Len(objects)
              /\ \A i \in 1..Len(objects) :
                    LET o == objects[i]
                        n == objects'[i]
                        bag == IF Has(o, "data") THEN DOMAIN o.data ELSE {}
                    IN  IF o.id = id
                        THEN /\ DOMAIN n = DOMAIN o \cup {"data"}
                             /\ \A f \in DOMAIN o \ {"data"} : n[f] = o[f]
                             /\ DOMAIN n.data = bag \cup DOMAIN data
                             /\ \A k \in DOMAIN data : n.data[k] = data[k]
                             /\ \A k \in bag \ DOMAIN data :
                                   n.data[k] = o.data[k]
                        ELSE n = o
              /\ id \notin IdsOf(objects) => objects' = objects]_vars

\* the segment S after updateObject("S", {p2: "C"}): p1 is kept, p2 replaced,
\* the ordered id list untouched, next to two other objects
C22_Witness ==
    /\ last.op = "updateObject"
    /\ last.id = "S"
    /\ last.found
    /\ IdsOf(objects) = {"S", "A", "N"}
    /\ StoredAs(objects, "S").data = [p1 |-> "A", p2 |-> "C"]
    /\ StoredAs(objects, "S").points = <<"A", "B">>

-----------------------------------------------------------------------------
(* resetScene on a store filled by replies and worked on by solve() *)

\* a reply that sets both poses and the step list
ViewReply ==
    [messageType |-> "actions",
     actions |-> << [type |-> "setCamera", payload |-> ReplyPose],
                    [type |-> "setNotebookView", payload |-> ReplyPose] >>,
     stepList |-> ReplySteps]

\* no object and no constraint added here makes a step of solve() throw
ResetNext ==
    \/ \E rawObj \in {PointA, PointUnnamed}, rnd \in RandomIds :
           AddObject(rawObj, rnd)
    \/ AddConstraint(DistanceC1)
    \/ ExecuteActions(ViewReply, <<"g1", "g1">>)
    \/ SolveBegin
    \/ SolveIterate
    \/ SolveCommit
    \/ ResetScene

ResetSpec == Init /\ [][ResetNext]_vars

\* C23: resetScene, from any reachable state, leaves the store with no
\* objects, no constraints, no steps, no active step, no notebook pose,
\* solver stats all zero, and the camera pose equal to the initial pose
\* (position (5,5,5), target (0,0,0), in grid units).
C23_ResetClearsEverything ==
    [][last'.op = "resetScene" =>
          /\ objects' = << >>
          /\ constraints' = << >>
          /\ steps' = << >>
          /\ activeStepId' = Null
          /\ notebookPose' = Null
          /\ \A k \in DOMAIN solverStats' : solverStats'[k] = 0
          /\ cameraPose' = [position |-> <<20000, 20000, 20000>>,
                            target |-> <<0, 0, 0>>]]_vars

\* resetScene has acted on a store that solve() had found with objects and
\* had left with the statistics of a run over one constraint
C23_Witness ==
    /\ last.op = "resetScene"
    /\ objects = << >>
    /\ solverStats = ZeroStats
    /\ Len(before.objects) >= 2
    /\ before.solverStats.total = 1
    /\ before.solverStats.iterations = MAX_ITER
    /\ before.solverStats.totalError > 0

-----------------------------------------------------------------------------
(* computeOptimalView (src/hooks/useGeometryEngine.tsx, lines 191-225) *)

\* mutant: invisible objects are framed as well
AllObjects(objs) == objs

\* objectsRef.current.filter(o => o.visible)
VisibleObjects(objs) == SelectSeq(objs, LAMBDA o : Truthy(o, "visible"))

\* the points box.expandByPoint is called with: obj.data?.position
ExpandedBy(objs) ==
    {objs[i].data.position : i \in {j \in 1..Len(objs) : HasPosition(objs[j])}}

\* THREE.Box3: box.min and box.max on axis k
BoxMin(ps, k) == CHOOSE m \in {p[k] : p \in ps} : \A p \in ps : m <= p[k]

BoxMax(ps, k) == CHOOSE m \in {p[k] : p \in ps} : \A p \in ps : m >= p[k]

\* box.getCenter: (min + max) * 0.5
BoxCenter(ps) ==
    [k \in 1..3 |-> RoundDiv(BoxMin(ps, k) + BoxMax(ps, k), 2)]

\* box.getSize: max - min
BoxSize(ps) == [k \in 1..3 |-> BoxMax(ps, k) - BoxMin(ps, k)]

\* mutant: the multiplier is 2.5, as it was before it was increased
ViewDistanceNear(maxDim) == (maxDim * 5) \div 2 + 20000

\* const distance = maxDim * 4.0 + 5, 5 world units being 20000 grid units
ViewDistance(maxDim) == maxDim * 4 + 20000

\* new THREE.Vector3(1, 0.8, 1), held in units of 1/10000
VIEW_DIRECTION == <<10000, 8000, 10000>>

\* .normalize().multiplyScalar(distance): each component divided by the
\* length of the vector and multiplied by distance
ViewOffset(distance) ==
    LET length == Sqrt(VIEW_DIRECTION[1] * VIEW_DIRECTION[1]
                       + VIEW_DIRECTION[2] * VIEW_DIRECTION[2]
                       + VIEW_DIRECTION[3] * VIEW_DIRECTION[3])
    IN  [k \in 1..3 |-> RoundDiv(distance * VIEW_DIRECTION[k], length)]

\* computeOptimalView() when objectsRef.current is objs
ComputeOptimalView(objs) ==
    IF Len(objs) = 0 THEN InitialPose
    ELSE LET visibleObjects == VisibleObjects(objs)
         IN  IF Len(visibleObjects) = 0 THEN InitialPose
             ELSE LET ps == ExpandedBy(visibleObjects)
                      hasPoints == ps # {}
                  IN  IF ~hasPoints THEN InitialPose
                      ELSE LET center == BoxCenter(ps)
                               size == BoxSize(ps)
                               \* Math.max(size.x, size.y, size.z)
                               maxDim == CHOOSE m \in {size[1], size[2], size[3]} :
                                            \A k \in 1..3 : m >= size[k]
                               distance == ViewDistance(maxDim)
                           IN  [position |->
                                    Add3(center, ViewOffset(distance)),
                                target |-> center]

-----------------------------------------------------------------------------
(* The viewport: AutoFrame, the Best View and Reset buttons, dragging a     *)
(* point (src/unnamed/part_000, src/components/GeometryObjects.tsx)         *)

\* AutoFrame's effect, run after a render in which objects is a new array:
\* objs is that array and pose the camera pose of that render.  AutoFrame is
\* rendered inside Canvas, by a renderer of its own, so that its effect and
\* the effect of GeometryProvider that writes objectsRef.current are not
\* ordered: computeOptimalView() reads the array of this render or the one of
\* the render before.
AutoFrameEffect(objs, pose) ==
    /\ prevCount' = Len(objs)
    /\ IF Len(objs) > 0 /\ (~initialized \/ Len(objs) # prevCount)
          /\ ~initialized
       THEN /\ \E seen \in {objectsRef, objs} :
                   cameraPose' = ComputeOptimalView(seen)
            /\ initialized' = TRUE
       ELSE /\ cameraPose' = pose
            /\ UNCHANGED initialized

\* whether the actions of a reply call setObjects
SetsObjects(actions) ==
    \E i \in 1..Len(actions) :
        \/ actions[i].type \in {"addObject", "resetScene"}
        \/ /\ actions[i].type = "updateObject"
           /\ Has(actions[i].payload, "id")
           /\ actions[i].payload.id # ""

\* handleSend executes the actions of a reply; AutoFrame's effect follows
ReplyFramed(payload, rnds) ==
    /\ pc = "idle"
    /\ \E end \in {AfterActions(Store, payload, rnds)} :
           /\ Len(end.objects) <= MaxObjects
           /\ Len(end.constraints) <= MaxConstraints
           /\ objects' = end.objects
           /\ constraints' = end.constraints
           /\ steps' = end.steps
           /\ activeStepId' = end.activeStepId
           /\ notebookPose' = end.notebookPose
           /\ solverStats' = end.solverStats
           /\ IF SetsObjects(payload.actions)
              THEN AutoFrameEffect(end.objects, end.cameraPose)
              ELSE /\ cameraPose' = end.cameraPose
                   /\ UNCHANGED <<initialized, prevCount>>
    /\ solves' = IF HasReset(payload.actions) THEN 0 ELSE solves
    /\ last' = [op |-> "reply", payload |-> payload,
                framed |-> initialized,
                found |-> Len(objects)]
    /\ UNCHANGED <<pc, currentObjects, activeConstraints, iter, iterError,
                   totalResidual, before>>
    /\ SyncRefs
    /\ UNCHANGED <<playerVars, genVars>>

\* the Reset button: onClick={resetScene}; AutoFrame's effect follows
ResetFramed ==
    /\ pc = "idle"
    /\ objects' = << >>
    /\ constraints' = << >>
    /\ steps' = << >>
    /\ activeStepId' = Null
    /\ notebookPose' = Null
    /\ solverStats' = ZeroStats
    /\ AutoFrameEffect(<< >>, InitialPose)
    /\ solves' = 0
    /\ last' = [op |-> "reset"]
    /\ UNCHANGED <<pc, currentObjects, activeConstraints, iter, iterError,
                   totalResidual, before>>
    /\ SyncRefs
    /\ UNCHANGED <<playerVars, genVars>>

\* the Best View button: setCameraPose(computeOptimalView())
HandleOptimalView ==
    /\ pc = "idle"
    /\ cameraPose' = ComputeOptimalView(objectsRef)
    /\ last' = [op |-> "optimalView"]
    /\ UNCHANGED <<objects, constraints, steps, activeStepId, notebookPose,
                   solverStats, objectsRef, constraintsRef, solveVars, before,
                   appVars>>

\* the updater queued by updateObject(id, { position }) applied to objs
Dragged(objs, id, position) ==
    [i \in 1..Len(objs) |->
        IF objs[i].id = id
        THEN MergeData(objs[i], [position |-> position])
        ELSE objs[i]]

\* handleDrag: updateObject(id, { position }); solve();
\* updateObject queues an updater of objects; solve() runs at once, on
\* objectsRef.current and constraintsRef.current, which the effects of the
\* last render wrote; if it is not left by an exception it queues
\* setObjects(currentObjects) behind the updater, and setSolverStats
HandleDrag(id, position) ==
    /\ pc = "idle"
    /\ solves < MaxSolves
    /\ \E i \in 1..Len(objects) :
           /\ objects[i].id = id
           /\ objects[i].type = "point"
           /\ Truthy(objects[i], "visible")
    /\ \E r \in {SolveRun(objectsRef, constraintsRef, solverStats)} :
           /\ objects' = IF r.fault THEN Dragged(objects, id, position)
                         ELSE r.objects
           /\ solverStats' = r.solverStats
           /\ last' = [op |-> "drag", id |-> id, position |-> position,
                       threw |-> r.fault]
    /\ solves' = solves + 1
    /\ before' = [objects |-> objects, solverStats |-> solverStats]
    /\ AutoFrameEffect(objects', cameraPose)
    /\ UNCHANGED <<constraints, steps, activeStepId, notebookPose, pc,
                   currentObjects, activeConstraints, iter, iterError,
                   totalResidual>>
    /\ SyncRefs
    /\ UNCHANGED <<playerVars, genVars>>

\* objects of the replies: points in sight, a hidden point, a segment; all
\* within two world units of the origin
ViewPoint(id, p) == [id |-> id, type |-> "point", data |-> [position |-> p]]

HiddenPoint ==
    [id |-> "H", type |-> "point", visible |-> FALSE,
     data |-> [position |-> <<0, 6000, -4000>>]]

SegmentAB == [id |-> "S", type |-> "segment", data |-> [p1 |-> "A", p2 |-> "B"]]

AddOf(obj) == [type |-> "addObject", payload |-> obj]

ViewReplies ==
    { [messageType |-> "actions",
       actions |-> << AddOf(ViewPoint("A", <<0, 0, 0>>)) >>],
      [messageType |-> "actions",
       actions |-> << AddOf(HiddenPoint) >>],
      [messageType |-> "actions",
       actions |-> << AddOf(SegmentAB) >>],
      [messageType |-> "actions",
       actions |-> << AddOf(ViewPoint("A", <<0, 0, 0>>)),
                      AddOf(ViewPoint("B", <<4000, 2000, 0>>)),
                      [type |-> "addConstraint",
                       payload |-> [id |-> "d1", type |-> "distance",
                                    objectIds |-> <<"A", "B">>,
                                    targetValue |-> 4000,
                                    enabled |-> TRUE]] >>],
      [messageType |-> "actions",
       actions |-> << [type |-> "resetScene"],
                      AddOf(ViewPoint("B", <<-2000, 0, 6000>>)) >>],
      [messageType |-> "actions",
       actions |-> << [type |-> "setCamera", payload |-> ReplyPose] >>] }

ViewNext ==
    \/ \E payload \in ViewReplies :
           ReplyFramed(payload, [i \in 1..Len(payload.actions) |-> "g1"])
    \/ ResetFramed
    \/ HandleOptimalView

ViewSpec == Init /\ [][ViewNext]_vars

DragReplies ==
    {r \in ViewReplies :
        \E i \in 1..Len(r.actions) :
            /\ r.actions[i].type = "addObject"
            /\ r.actions[i].payload.id \in {"A", "B"}}

DragNext ==
    \/ \E payload \in DragReplies :
           ReplyFramed(payload, [i \in 1..Len(payload.actions) |-> "g1"])
    \/ \E id \in {"A", "B"}, position \in { <<6000, 0, 0>>, <<0, 4000, 2000>> } :
          HandleDrag(id, position)

DragSpec == Init /\ [][DragNext]_vars

-----------------------------------------------------------------------------
(* Properties of computeOptimalView, checked under ViewSpec on the Best     *)
(* View button                                                              *)

\* the positions of the objects that are visible and carry a position
InSight(objs) ==
    {objs[i].data.position :
        i \in {j \in 1..Len(objs) :
                 /\ objs[j].visible = TRUE
                 /\ "data" \in DOMAIN objs[j]
                 /\ "position" \in DOMAIN objs[j].data}}

\* C24: computeOptimalView returns the default pose (position (5,5,5),
\* target (0,0,0)) whenever no visible object carries a position: for an
\* empty scene, for a scene whose objects are all invisible, for a scene
\* whose visible objects all lack a position; invisible objects that carry a
\* position never influence the result.
C24_DefaultViewWithoutVisiblePosition ==
    [][last'.op = "optimalView" =>
          /\ InSight(objects) = {} =>
                 cameraPose' = [position |-> <<20000, 20000, 20000>>,
                                target |-> <<0, 0, 0>>]
          /\ cameraPose' =
                 ComputeOptimalView(
                     SelectSeq(objects, LAMBDA o : o.visible = TRUE))]_vars

\* Best View pressed on a scene of a hidden point with a position and a
\* visible segment without one
C24_Witness ==
    /\ last.op = "optimalView"
    /\ IdsOf(objects) = {"H", "S"}
    /\ HasPosition(StoredAs(objects, "H"))
    /\ cameraPose = InitialPose

\* C25: with at least one visible positioned object, computeOptimalView
\* returns target = centre of the axis-aligned bounding box of the visible
\* positioned objects (to half a grid unit) and a camera position at
\* distance maxDim x 4 + 5 from the target (to two grid units, 0.0005),
\* maxDim being the largest box extent; for a single positioned point the
\* target is that point and the distance is 5.
C25_ViewFramesBoundingBox ==
    [][(last'.op = "optimalView" /\ InSight(objects) # {}) =>
          LET ps == InSight(objects)
              lo == [k \in 1..3 |->
                        CHOOSE m \in {p[k] : p \in ps} :
                            \A p \in ps : m <= p[k]]
              hi == [k \in 1..3 |->
                        CHOOSE m \in {p[k] : p \in ps} :
                            \A p \in ps : m >= p[k]]
              maxDim == CHOOSE m \in {hi[k] - lo[k] : k \in 1..3} :
                            \A k \in 1..3 : m >= hi[k] - lo[k]
              far == DistanceTo(cameraPose'.position, cameraPose'.target)
          IN  /\ \A k \in 1..3 :
                    Abs(2 * cameraPose'.target[k] - (lo[k] + hi[k])) <= 1
              /\ Abs(far - (maxDim * 4 + 20000)) <= 2
              /\ Cardinality(ps) = 1 =>
                    /\ cameraPose'.target \in ps
                    /\ far = 20000]_vars

\* Best View pressed on the points A and B, one world unit apart on x, next
\* to a hidden point: the target is the middle of A and B and the camera is
\* 1 x 4 + 5 = 9 world units from it
C25_Witness ==
    /\ last.op = "optimalView"
    /\ IdsOf(objects) = {"A", "B", "H"}
    /\ InSight(objects) = { <<0, 0, 0>>, <<4000, 2000, 0>> }
    /\ cameraPose.target = <<2000, 1000, 0>>
    /\ Abs(DistanceTo(cameraPose.position, cameraPose.target) - 36000) <= 2

-----------------------------------------------------------------------------
(* Dragging a point, checked under DragSpec *)

\* C26 as claimed: an update issued immediately before solve() in the same
\* event is not lost: when the drag handler calls updateObject(id, {position:
\* p}) and then solve(), the snapshot of the solver holds position p for that
\* object, and the objects committed are those solve() computes from the
\* updated objects.
C26_DragUpdateNotLost ==
    [][last'.op = "drag" =>
          LET updated ==
                  [i \in 1..Len(objects) |->
                      IF objects[i].id = last'.id
                      THEN [objects[i] EXCEPT
                               !.data = [@ EXCEPT
                                            !.position = last'.position]]
                      ELSE objects[i]]
          IN  objects' = SolveRun(updated, constraints, solverStats).objects]_vars

-----------------------------------------------------------------------------
(* AutoFrame, checked under ViewSpec *)

\* C29 as claimed: once the scene has been framed, a resetScene followed by
\* new objects being added sets the camera pose to computeOptimalView() of
\* the new objects; objects added to a framed scene that was not reset leave
\* the camera pose as the reply left it.
C29_ReframedAfterReset ==
    [][(last'.op = "reply" /\ initialized /\ objects' # << >>
        /\ SetsObjects(last'.payload.actions)) =>
          IF objects = << >> \/ HasReset(last'.payload.actions)
          THEN cameraPose' = ComputeOptimalView(objects')
          ELSE cameraPose' =
                   AfterActions(Store, last'.payload,
                                [i \in 1..Len(last'.payload.actions) |->
                                    "g1"]).cameraPose]_vars

-----------------------------------------------------------------------------
(* ChatPanel: the voice walkthrough of the steps                            *)
(* (src/unnamed/part_000, lines 224-349 and 497-499)                        *)
(*                                                                          *)
(* playStepAudio, togglePlayback and the callbacks they create are closures *)
(* of one render of ChatPanel: the playerState they read is the one of that *)
(* render.  `seen` is that value.                                           *)

\* a step list as a reply leaves it, the first step active; cameraView
\* [8, 8, 8] in grid units
PlaySteps ==
    << [id |-> "s1", description |-> "base", objectIds |-> <<"A">>,
        cameraView |-> <<32000, 32000, 32000>>],
       [id |-> "s2", description |-> "top", objectIds |-> <<"A", "S">>],
       [id |-> "s3", description |-> "height", objectIds |-> <<"S">>] >>

\* the prefetch effect (lines 246-272) has created the audio context, which
\* starts suspended or running as the browser decides
PlayInit ==
    /\ objects = << >>
    /\ constraints = << >>
    /\ steps = PlaySteps
    /\ activeStepId = PlaySteps[1].id
    /\ cameraPose = InitialPose
    /\ notebookPose = Null
    /\ solverStats = ZeroStats
    /\ objectsRef = << >>
    /\ constraintsRef = << >>
    /\ SolveIdle
    /\ solves = 0
    /\ before = [objects |-> << >>, solverStats |-> ZeroStats]
    /\ last = [op |-> "init"]
    /\ initialized = FALSE
    /\ prevCount = 0
    /\ playerState = "stopped"
    /\ contextState \in {"suspended", "running"}
    /\ activeSource = {}
    /\ audioCache = {}
    /\ playbackIndex = 0
    /\ sources = {}
    /\ timers = {}
    /\ toggling = {}
    /\ apiKey = TRUE
    /\ GenIdle

\* what playStepAudio and stopPlayback write
Player ==
    [playerState |-> playerState, playbackIndex |-> playbackIndex,
     activeStepId |-> activeStepId, cameraPose |-> cameraPose,
     sources |-> sources, activeSource |-> activeSource, timers |-> timers]

SetPlayer(st) ==
    /\ playerState' = st.playerState
    /\ playbackIndex' = st.playbackIndex
    /\ activeStepId' = st.activeStepId
    /\ cameraPose' = st.cameraPose
    /\ sources' = st.sources
    /\ activeSource' = st.activeSource
    /\ timers' = st.timers

\* what the walkthrough leaves alone
PlayerFrame ==
    UNCHANGED <<objects, constraints, steps, notebookPose, solverStats,
                objectsRef, constraintsRef, solveVars, before, initialized,
                prevCount,
                genVars>>

\* playStepAudio(stepIndex) of a render that saw playerState = seen
\* (lines 274-318); stepIndex counts from 0
PlayStepAudio(st, stepIndex, seen) ==
    IF stepIndex >= Len(steps)
    THEN [st EXCEPT !.playerState = "stopped", !.playbackIndex = 0]
    ELSE LET step == steps[stepIndex + 1]
             shown == [st EXCEPT
                          !.activeStepId = step.id,
                          !.cameraPose =
                              IF Has(step, "cameraView")
                              THEN [position |-> step.cameraView,
                                    target |-> <<0, 0, 0>>]
                              ELSE @]
         IN  IF step.id \in audioCache
             THEN [shown EXCEPT
                      !.sources = @ \cup {[step |-> stepIndex, seen |-> seen,
                                           stopped |-> FALSE]},
                      !.activeSource = {[step |-> stepIndex, seen |-> seen]}]
             ELSE [shown EXCEPT
                      !.timers = @ \cup {[step |-> stepIndex, seen |-> seen]}]

\* stopPlayback (lines 343-349): stop() on a source that has ended, or was
\* stopped before, changes nothing
StopPlayback(st) ==
    [st EXCEPT
        !.sources = {IF [step |-> src.step, seen |-> src.seen] \in activeSource
                     THEN [src EXCEPT !.stopped = TRUE]
                     ELSE src : src \in @},
        !.playerState = "stopped",
        !.playbackIndex = 0]

\* the play button: togglePlayback up to its await
TogglePlaybackClick ==
    /\ toggling = {}
    /\ toggling' = {[seen |-> playerState, from |-> activeStepId]}
    /\ last' = [op |-> "click"]
    /\ UNCHANGED <<playerState, contextState, activeSource, audioCache,
                   playbackIndex, sources, timers, activeStepId, cameraPose>>
    /\ PlayerFrame

\* togglePlayback after ctx.resume() or ctx.suspend() has settled
TogglePlaybackResume ==
    /\ \E call \in toggling :
           /\ toggling' = toggling \ {call}
           /\ last' = [op |-> "toggle", seen |-> call.seen]
           /\ IF call.seen = "stopped"
              THEN LET found == FindIndex(steps, call.from)
                       startIndex == IF found = 0 THEN 0 ELSE found - 1
                   IN  /\ contextState' = "running"
                       /\ SetPlayer(PlayStepAudio(
                              [Player EXCEPT !.playbackIndex = startIndex,
                                             !.playerState = "playing"],
                              startIndex, call.seen))
              ELSE /\ contextState' =
                          IF call.seen = "playing" THEN "suspended"
                          ELSE "running"
                   /\ playerState' =
                          IF call.seen = "playing" THEN "paused"
                          ELSE "playing"
                   /\ UNCHANGED <<activeSource, playbackIndex, sources, timers,
                                  activeStepId, cameraPose>>
    /\ UNCHANGED audioCache
    /\ PlayerFrame

\* the ended event of a source: a source that was not stopped ends when the
\* context has run through its buffer; stop() ends it
SourceEnded ==
    /\ \E src \in sources :
           /\ src.stopped \/ contextState = "running"
           /\ last' = [op |-> "ended", step |-> src.step,
                       stopped |-> src.stopped]
           /\ LET st == [Player EXCEPT !.sources = @ \ {src}]
              IN  IF contextState = "running"
                  THEN SetPlayer(PlayStepAudio(
                           [st EXCEPT !.playbackIndex = src.step + 1],
                           src.step + 1, src.seen))
                  ELSE SetPlayer(st)
    /\ UNCHANGED <<contextState, audioCache, toggling>>
    /\ PlayerFrame

\* a timeout of 2000 ms runs out
TimerFires ==
    /\ \E t \in timers :
           /\ last' = [op |-> "timer", step |-> t.step]
           /\ LET st == [Player EXCEPT !.timers = @ \ {t}]
              IN  IF t.seen # "stopped"
                  THEN SetPlayer(PlayStepAudio(
                           [st EXCEPT !.playbackIndex = t.step + 1],
                           t.step + 1, t.seen))
                  ELSE SetPlayer(st)
    /\ UNCHANGED <<contextState, audioCache, toggling>>
    /\ PlayerFrame

\* narrate, up to its await: if (playerState !== 'stopped') stopPlayback()
Narrate ==
    /\ playerState # "stopped"
    /\ SetPlayer(StopPlayback(Player))
    /\ last' = [op |-> "stop", playing |-> sources # {}]
    /\ UNCHANGED <<contextState, audioCache, toggling>>
    /\ PlayerFrame

\* the narration of a step arrives: audioCacheRef.current.set(step.id, buffer)
PrefetchDone(id) ==
    /\ id \notin audioCache
    /\ audioCache' = audioCache \cup {id}
    /\ last' = [op |-> "prefetch"]
    /\ UNCHANGED <<playerState, contextState, activeSource, playbackIndex,
                   sources, timers, toggling, activeStepId, cameraPose>>
    /\ PlayerFrame

\* a click on a step of the list: onClick={() => setActiveStep(step.id)}
ClickStep(id) ==
    /\ activeStepId # id
    /\ activeStepId' = id
    /\ last' = [op |-> "step"]
    /\ UNCHANGED <<playerVars, cameraPose>>
    /\ PlayerFrame

PlayNext ==
    \/ TogglePlaybackClick
    \/ TogglePlaybackResume
    \/ SourceEnded
    \/ TimerFires
    \/ Narrate
    \/ \E id \in IdsOf(steps) : PrefetchDone(id)

PlaySpec == PlayInit /\ [][PlayNext]_vars

\* a walkthrough that is never paused and never stopped: the play button is
\* pressed only while the player is stopped
WalkNext ==
    \/ playerState = "stopped" /\ TogglePlaybackClick
    \/ TogglePlaybackResume
    \/ SourceEnded
    \/ TimerFires
    \/ \E id \in IdsOf(steps) : PrefetchDone(id)
    \/ \E id \in IdsOf(steps) : ClickStep(id)

WalkSpec == PlayInit /\ [][WalkNext]_vars

\* C27 as claimed: stopping the walkthrough stops it: the end-of-audio
\* callback fired by stopping a source does not advance the active step or
\* the playback index, starts no source and sets no timeout, and leaves the
\* player state as it is.
C27_StopStopsWalkthrough ==
    [][(last'.op = "ended" /\ last'.stopped) =>
          /\ activeStepId' = activeStepId
          /\ playbackIndex' = playbackIndex
          /\ playerState' = playerState
          /\ sources' \subseteq sources
          /\ timers' = timers]_vars

\* C28 as claimed: in a walkthrough started from 'stopped' and never paused
\* or stopped, when the 2-second wait of a step without cached audio is over
\* the walkthrough moves on: the next step becomes the active one, or, after
\* the last step, the player state returns to 'stopped'.
C28_UncachedStepMovesOn ==
    [][last'.op = "timer" =>
          IF last'.step + 1 < Len(steps)
          THEN /\ playbackIndex' = last'.step + 1
               /\ activeStepId' = steps[last'.step + 2].id
          ELSE playerState' = "stopped"]_vars

-----------------------------------------------------------------------------
\* services/geminiService.ts: extractJSON and generateGeometryAction.
\*
\* A response text is a sequence of lexical pieces:
\*   "{" "}"  the braces
\*   "m"      a well-formed member list containing text, as  "text": "..."
\*   "n"      the literal null
\*   "x"      prose, or any piece that is not JSON
\*   "#"      a code fence of three backquotes, with or without the
\*            json label
\*   "_"      a run of whitespace
\*   "c"      a control character of [\x00-\x09\x0B-\x1F\x7F]

MaxTextLen == 2

\* longer responses of the shapes extractJSON is written for
ResponseSamples ==
    { <<"{", "m", "}">>,
      <<"x", "{", "m", "}", "x">>,
      <<"#", "_", "{", "m", "}", "_", "#">>,
      <<"x", "#", "{", "}", "#", "x">>,
      <<"_", "n", "_">>,
      <<"#", "n", "#">>,
      <<"{", "c", "m", "}">>,
      <<"{", "m", "x">>,
      <<"}", "x", "{">>,
      <<"#", "x", "#">> }

\* every text of up to MaxTextLen pieces, and the samples
ResponseTexts ==
    UNION { [1..n -> {"{", "}", "m", "n", "x"}] : n \in 0..MaxTextLen }
        \cup ResponseSamples

\* String.trim(): what lies between the first and the last piece that is
\* not whitespace
Trim(s) ==
    LET inked == { k \in 1..Len(s) : s[k] # "_" }
    IN  IF inked = {} THEN << >>
        ELSE SubSeq(s, CHOOSE k \in inked : \A m \in inked : k <= m,
                       CHOOSE k \in inked : \A m \in inked : k >= m)

\* String.indexOf from a position, 1-based, 0 when absent
IndexOfFrom(s, piece, from) ==
    LET at == { k \in from..Len(s) : s[k] = piece }
    IN  IF at = {} THEN 0 ELSE CHOOSE k \in at : \A m \in at : k <= m

LastIndexOf(s, piece) ==
    LET at == { k \in 1..Len(s) : s[k] = piece }
    IN  IF at = {} THEN 0 ELSE CHOOSE k \in at : \A m \in at : k >= m

\* String.substring(a, b), 0-based, which swaps its arguments when a > b
Substring(s, a, b) ==
    LET lo == IF a <= b THEN a ELSE b
        hi == IF a <= b THEN b ELSE a
    IN  SubSeq(s, lo + 1, hi)

\* the code-block regular expression: the first fence that has a later
\* fence, up to the nearest one; the group leaves out the whitespace on
\* both sides
CodeBlockMatch(s) ==
    LET open == IndexOfFrom(s, "#", 1)
        close == IF open = 0 THEN 0 ELSE IndexOfFrom(s, "#", open + 1)
    IN  IF close = 0 THEN [match |-> FALSE, group |-> << >>]
        ELSE [match |-> TRUE, group |-> Trim(SubSeq(s, open + 1, close - 1))]

\* JSON.parse: whitespace between the pieces is insignificant; the values
\* these pieces can spell are null, {} and an object with a text member
JSONParse(s) ==
    LET w == SelectSeq(s, LAMBDA p : p # "_")
    IN  IF w = <<"n">> THEN [ok |-> TRUE, value |-> "null"]
        ELSE IF w = <<"{", "}">> THEN [ok |-> TRUE, value |-> "empty"]
        ELSE IF w = <<"{", "m", "}">> THEN [ok |-> TRUE, value |-> "text"]
        ELSE [ok |-> FALSE, value |-> "none"]

\* extractJSON; ok = FALSE is its throw of "Invalid JSON format"
ExtractJSON(text) ==
    LET trimmed == Trim(text)
        block == CodeBlockMatch(trimmed)
        cleanText == IF block.match THEN block.group ELSE trimmed
        firstBrace == IndexOfFrom(cleanText, "{", 1)
        lastBrace == LastIndexOf(cleanText, "}")
        cut == IF firstBrace # 0 /\ lastBrace # 0
               THEN Substring(cleanText, firstBrace - 1, lastBrace)
               ELSE cleanText
        \* the replace that deletes the control characters
        stripped == SelectSeq(cut, LAMBDA p : p # "c")
    IN  JSONParse(stripped)

\* the inner try of generateGeometryAction: extractJSON(text), then the
\* read of json.text, which throws a TypeError when json is null
InnerTry(text) ==
    LET json == ExtractJSON(text)
    IN  IF ~json.ok THEN [threw |-> TRUE, json |-> "none"]
        ELSE IF json.value = "null" THEN [threw |-> TRUE, json |-> "null"]
        ELSE [threw |-> FALSE, json |-> json.value]

\* the retry guard as it would be without the isRetry parameter
MayRetryAlways(retry) == TRUE

\* catch (parseError) { if (!isRetry) ...
MayRetry(retry) == ~retry

\* the values generateGeometryAction returns
Returned(json) ==
    [kind |-> "returned",
     text |-> IF json = "text" THEN "json.text" ELSE "Processed",
     messageType |-> "json.messageType"]

Fallback ==
    [kind |-> "returned", text |-> "Error parsing model response.",
     messageType |-> "chat"]

Thrown(message) ==
    [kind |-> "thrown", text |-> message, messageType |-> "none"]

\* generateGeometryAction is called: getAI(), then the first
\* generateContent request
GenerateCall ==
    /\ genPc = "idle"
    /\ isRetry' = FALSE
    /\ responses' = << >>
    /\ IF apiKey
       THEN /\ genPc' = "awaiting"
            /\ requests' = 1
            /\ result' = [kind |-> "none"]
       ELSE /\ genPc' = "idle"
            /\ requests' = 0
            /\ result' = Thrown("API_KEY not found")
    /\ last' = [op |-> "generate"]
    /\ UNCHANGED <<storeVars, solveVars, before, initialized, prevCount,
                   playerVars, apiKey>>

\* the request is answered with a text: response.text || "{}", the inner
\* try, and on its failure either the one recursive call with
\* isRetry = true, which issues its own request, or the fallback
GenerateResponse(responseText) ==
    /\ genPc = "awaiting"
    /\ LET text == IF responseText = << >> THEN <<"{", "}">>
                   ELSE responseText
           try == InnerTry(text)
       IN  /\ responses' = Append(responses, text)
           /\ IF ~try.threw
              THEN /\ result' = Returned(try.json)
                   /\ genPc' = "idle"
                   /\ UNCHANGED <<isRetry, requests>>
              ELSE IF MayRetry(isRetry)
              THEN /\ isRetry' = TRUE
                   /\ requests' = requests + 1
                   /\ genPc' = "awaiting"
                   /\ UNCHANGED result
              ELSE /\ result' = Fallback
                   /\ genPc' = "idle"
                   /\ UNCHANGED <<isRetry, requests>>
           /\ last' = [op |-> "response", threw |-> try.threw]
    /\ UNCHANGED <<storeVars, solveVars, before, initialized, prevCount,
                   playerVars, apiKey>>

\* the request fails: the outer catch throws "AI Request Failed: ..."; the
\* promise of a retry is returned unawaited, so its rejection is the
\* rejection of the first call
GenerateReject ==
    /\ genPc = "awaiting"
    /\ result' = Thrown("AI Request Failed")
    /\ genPc' = "idle"
    /\ last' = [op |-> "reject"]
    /\ UNCHANGED <<isRetry, requests, responses>>
    /\ UNCHANGED <<storeVars, solveVars, before, initialized, prevCount,
                   playerVars, apiKey>>

GenInit ==
    /\ objects = << >>
    /\ constraints = << >>
    /\ steps = << >>
    /\ activeStepId = Null
    /\ cameraPose = InitialPose
    /\ notebookPose = Null
    /\ solverStats = ZeroStats
    /\ objectsRef = << >>
    /\ constraintsRef = << >>
    /\ SolveIdle
    /\ solves = 0
    /\ before = [objects |-> << >>, solverStats |-> ZeroStats]
    /\ last = [op |-> "init"]
    /\ initialized = FALSE
    /\ prevCount = 0
    /\ PlayerInit
    /\ apiKey \in BOOLEAN
    /\ GenIdle

GenNext ==
    \/ GenerateCall
    \/ \E responseText \in ResponseTexts : GenerateResponse(responseText)
    \/ GenerateReject

GenSpec == GenInit /\ [][GenNext]_vars

\* extraction of the text threw
FailedExtraction(text) == ~ExtractJSON(text).ok

\* extraction of the text threw, or gave null
GaveNoObject(text) ==
    FailedExtraction(text) \/ ExtractJSON(text).value = "null"

\* C30 as claimed: one call of generateGeometryAction issues at most two
\* requests, the second only when extraction of the first response text
\* failed; when extraction of the second response text fails too, the call
\* is over and has returned the chat-type fallback message.
C30_SecondRequestOnlyAfterFailedExtraction ==
    /\ requests <= 2
    /\ requests = 2 =>
          /\ Len(responses) >= 1
          /\ FailedExtraction(responses[1])
    /\ (Len(responses) = 2 /\ FailedExtraction(responses[2])) =>
          /\ genPc = "idle"
          /\ result = Fallback

\* C30, amended: one call of generateGeometryAction issues at most two
\* requests, the second only when extraction of the first response text
\* failed or gave null; when the second response text gives no object
\* either, the call is over and has returned the chat-type fallback message,
\* without a throw and without a third request.
C30_RetriesOnce ==
    /\ requests <= 2
    /\ requests = 2 =>
          /\ Len(responses) >= 1
          /\ GaveNoObject(responses[1])
    /\ (Len(responses) = 2 /\ GaveNoObject(responses[2])) =>
          /\ genPc = "idle"
          /\ requests = 2
          /\ result = Fallback
          /\ result.kind = "returned"
          /\ result.messageType = "chat"

\* a call whose first response text was the literal null and whose second
\* was not JSON has ended with the fallback message
C30_Witness ==
    /\ genPc = "idle"
    /\ requests = 2
    /\ Len(responses) = 2
    /\ ExtractJSON(responses[1]) = [ok |-> TRUE, value |-> "null"]
    /\ FailedExtraction(responses[2])
    /\ result = Fallback

=============================================================================
